---------------------------- MODULE Spec2Model ----------------------------
(***************************************************************************)
(* A model of the CSV engine of alkaid: the byte-classification parser     *)
(* (IBasicCSVParser), its two source adapters (StreamParser, MmapParser),  *)
(* the row queue (ThreadSafeDeque), the reader facade (CSVReader) with its *)
(* worker thread, and format guessing.                                     *)
(*                                                                         *)
(* Bytes are one-character strings and a buffer is a sequence of them.     *)
(* C++ offsets are 0-based: in[k] of the code is in[k + 1] here.           *)
(* A size_t is held by its representative in (-2^63, 2^63): a negative n   *)
(* stands for 2^64 + n, so +, - and = are those of the code, and the       *)
(* code's unsigned test "x > 0" is "x # 0".                                *)
(***************************************************************************)
EXTENDS Integers, Sequences, FiniteSets, TLC

VARIABLES
    \* -- the reader and its worker thread (specification Spec)
    src,            \* the bytes of the source (a file or a stream)
    kind,           \* "stream" (StreamParser) or "mmap" (MmapParser)
    fmt,            \* CSVReader::_format
    file,           \* the path of a memory-mapped reader: "present" while it
                    \*   can be opened and mapped, "missing" once it cannot
    parser,         \* the parser's members that outlive one next():
                    \*   eof, pos (stream_pos / mmap_pos), field_start,
                    \*   field_length, field_has_double_quote
    data,           \* ThreadSafeDeque::data, the queue of parsed rows
    waitable,       \* ThreadSafeDeque::_is_waitable
    notified,       \* a notify_all of _cond has reached the blocked waiter
    header_trimmed, \* CSVReader::header_trimmed
    col_names,      \* ColNames::col_names
    n_cols,         \* CSVReader::n_cols
    n_rows,         \* CSVReader::_n_rows
    joinable,       \* read_csv_worker.joinable()
    threads,        \* read_csv threads started and not yet joined
    c_pc,           \* where the consumer (the caller's thread) stands
    w_pc,           \* where the worker thread stands in read_csv
    w_todo,         \* rows parse() of the running next() has yet to push
    w_tail,         \* rows end_feed() of the running next() will push
    w_after,        \* the parser members as the running next() leaves them
    delivered,      \* rows handed to the caller so far, in order
    result,         \* outcome of the caller's last call
    exhausted,      \* -1, or Len(delivered) when the reader first reported its end
    began,          \* the caller has called begin()
    \* -- one parse of one buffer (specification SpecParse)
    p_in,           \* the buffer handed to the parser
    p_fmt,          \* the CSVFormat in force
    p_out,          \* <<>>, or <<the outcome of next() and trim_header()>>
    \* -- one guess of the format (specification SpecGuess)
    g_head,         \* the head of the file handed to _guess_format
    g_delims,       \* the candidate delimiters, in order
    g_order,        \* the order in which this build's unordered_map hands
                    \*   out its entries
    g_out           \* the CSVGuessResults of the calls made so far

VARIABLES
    cf,             \* a CSVFormat object under setter calls: its
                    \*   possible_delimiters, trim_chars, quote_char, no_quote
    cf_threw        \* whether the last setter call threw std::runtime_error

VARIABLES
    disk,           \* the directory: for each path, whether a file exists
                    \*   there and its bytes
    fo,             \* the one file object alive: its class and members
    fret,           \* what the last call on the object returned
    appended,       \* the buffers of the append calls that returned Ok
                    \*   since the last truncating open of FilePath
    tracked,        \* FilePath was last created by a truncating open
    read_back,      \* the bytes the reads have delivered since the open
    created         \* the path of the file a temp file's open created

VARIABLES
    mm,             \* a basic_mmap object: data_, length_, mapped_length_,
                    \*   file_handle_, is_handle_internal_
    mm_before,      \* the object as it was before the last call
    mm_error,       \* the std::error_code the last call reported
    mm_op,          \* the last call
    mm_handles,     \* the file handles open in the process
    mm_mappings,    \* the mappings alive in the address space
    mm_size         \* the size of the file

VARIABLES
    codec_enabled,  \* the ENABLE_* macros the library was built with
    codec_args,     \* the last call of a static function of Codec: its name,
                    \*   the codec type and the compression level given
    codec_ret       \* what that call returned: the status code and, for
                    \*   Create, which codec the pointer holds

VARIABLES
    h_obj,          \* a file object of alkaid::lfs: its class, _fd, the
                    \*   listener_ it holds, and whether it is destroyed
    h_first,        \* the lowest descriptor free in the process
    h_opened,       \* the descriptors open_file returned, in order
    h_closes,       \* for each descriptor, the calls of ::close on it
    h_events,       \* the before_close and after_close calls made, in
                    \*   order, each with the object's _fd at the call
    h_ret           \* what the last call on the object returned

rvars == <<src, kind, fmt, file, parser, data, waitable, notified, header_trimmed,
           col_names, n_cols, n_rows, joinable, threads, c_pc, w_pc, w_todo,
           w_tail, w_after, delivered, result, exhausted, began>>
pvars == <<p_in, p_fmt, p_out>>
gvars == <<g_head, g_delims, g_order, g_out>>
fvars == <<cf, cf_threw>>
xvars == <<disk, fo, fret, appended, tracked, read_back, created>>
mvars == <<mm, mm_before, mm_error, mm_op, mm_handles, mm_mappings, mm_size>>
cvars == <<codec_enabled, codec_args, codec_ret>>
hvars == <<h_obj, h_first, h_opened, h_closes, h_events, h_ret>>
vars == <<rvars, pvars, gvars, fvars, xvars, mvars, cvars, hvars>>

----------------------------------------------------------------------------
(* defines.h: ParseFlags, with the enum's values.                          *)
QUOTE_ESCAPE_QUOTE == 0
QUOTE == 3
NOT_SPECIAL == 4
DELIMITER == 6
NEWLINE == 7

UNINITIALIZED_FIELD == -1

(* The real chunk size; a source shorter than this is read in one chunk.   *)
ITERATION_CHUNK_SIZE == 10000000

(* Faulty variant: the flag is the same inside a quoted field.             *)
quote_escape_flag_kept(flag, quote_escape) == flag

(* (int)flag & ~((int)QUOTE * quote_escape): inside a quoted field the two *)
(* low bits are cleared.                                                   *)
quote_escape_flag(flag, quote_escape) ==
    IF quote_escape THEN (flag \div 4) * 4 ELSE flag

(* make_parse_flags(delimiter) and make_parse_flags(delimiter, quote_char) *)
(* read at one byte; f.no_quote selects the table without a quote.         *)
parse_flag(f, ch) ==
    IF ~f.no_quote /\ ch = f.quote_char THEN QUOTE
    ELSE IF ch = f.delim THEN DELIMITER
    ELSE IF ch = "\r" \/ ch = "\n" THEN NEWLINE
    ELSE NOT_SPECIAL

compound_parse_flag(f, ch, quote_escape) ==
    quote_escape_flag(parse_flag(f, ch), quote_escape)

(* CSVFormat(): delimiter ',', quote '"', header row 0, IGNORE_ROW.        *)
(* No format of the model has trim characters, so ws_flag is false for     *)
(* every byte and the trimming loops of parse_field do nothing.            *)
CSVFormat ==
    [delim |-> ",", quote_char |-> "\"", no_quote |-> FALSE,
     header |-> 0, variable_column_policy |-> "IGNORE_ROW"]

----------------------------------------------------------------------------
(* The parser's working state while it parses one chunk `in`:              *)
(*   data_pos, field_start, field_length, quote_escape,                    *)
(*   field_has_double_quote  the members of IBasicCSVParser;               *)
(*   row_start, fields_start the current_row's data_start, fields_start;   *)
(*   fields                  the chunk's field list (data_ptr->fields);    *)
(*   rows                    the rows pushed to the queue, in order;       *)
(*   returned                parse() has left its loop by `return`.        *)
(* A pushed row holds its data_start and its own slice of the field list.  *)

(* Faulty variant: the field is recorded without its escaped-quote flag.   *)
push_field_unflagged(s) ==
    [s EXCEPT
        !.fields = Append(@,
            [start |-> IF s.field_start = UNINITIALIZED_FIELD THEN 0
                       ELSE s.field_start,
             length |-> s.field_length,
             has_double_quote |-> FALSE]),
        !.field_has_double_quote = FALSE,
        !.field_start = UNINITIALIZED_FIELD,
        !.field_length = 0]

push_field(s) ==
    [s EXCEPT
        !.fields = Append(@,
            [start |-> IF s.field_start = UNINITIALIZED_FIELD THEN 0
                       ELSE s.field_start,
             length |-> s.field_length,
             has_double_quote |-> s.field_has_double_quote]),
        !.field_has_double_quote = FALSE,
        !.field_start = UNINITIALIZED_FIELD,
        !.field_length = 0]

(* Faulty variant: the row takes every field of the chunk.                 *)
push_row_all(s) ==
    [s EXCEPT
        !.rows = Append(@, [data_start |-> s.row_start, fields |-> s.fields])]

push_row(s) ==
    [s EXCEPT
        !.rows = Append(@,
            [data_start |-> s.row_start,
             fields |-> SubSeq(s.fields, s.fields_start + 1, Len(s.fields))])]

(* First offset at or after `from` that is the end of the buffer or whose  *)
(* compound flag is not NOT_SPECIAL.                                       *)
scan_not_special(f, in, from, quote_escape) ==
    CHOOSE p \in from..Len(in) :
        /\ \A q \in from..(p - 1) :
              compound_parse_flag(f, in[q + 1], quote_escape) = NOT_SPECIAL
        /\ \/ p = Len(in)
           \/ compound_parse_flag(f, in[p + 1], quote_escape) # NOT_SPECIAL

parse_field(f, in, s) ==
    LET fs == IF s.field_start = UNINITIALIZED_FIELD
              THEN s.data_pos - s.row_start ELSE s.field_start
        dp == scan_not_special(f, in, s.data_pos, s.quote_escape)
    IN  [s EXCEPT !.field_start = fs,
                  !.data_pos = dp,
                  !.field_length = dp - (fs + s.row_start)]

(* One turn of the loop of parse(): the switch on the compound flag of the *)
(* byte at data_pos.                                                       *)
parse_step(f, in, s) ==
    LET flag == compound_parse_flag(f, in[s.data_pos + 1], s.quote_escape)
        size == Len(in)
    IN
    IF flag = DELIMITER THEN
        [push_field(s) EXCEPT !.data_pos = s.data_pos + 1]
    ELSE IF flag = NEWLINE THEN
        LET dp1 == s.data_pos + 1
            dp2 == IF dp1 < size /\ parse_flag(f, in[dp1 + 1]) = NEWLINE
                   THEN dp1 + 1 ELSE dp1
            t   == push_row(push_field(s))
        IN  [t EXCEPT !.data_pos = dp2,
                      !.row_start = dp2,
                      !.fields_start = Len(t.fields)]
    ELSE IF flag = NOT_SPECIAL THEN
        parse_field(f, in, s)
    ELSE IF flag = QUOTE_ESCAPE_QUOTE THEN
        IF s.data_pos + 1 = size THEN
            [s EXCEPT !.returned = TRUE]
        ELSE
            LET next_ch == parse_flag(f, in[s.data_pos + 2]) IN
            IF next_ch >= DELIMITER THEN
                [s EXCEPT !.quote_escape = FALSE, !.data_pos = s.data_pos + 1]
            ELSE IF next_ch = QUOTE THEN
                [s EXCEPT !.data_pos = s.data_pos + 2,
                          !.field_length = s.field_length + 2,
                          !.field_has_double_quote = TRUE]
            ELSE
                [s EXCEPT !.field_length = s.field_length + 1,
                          !.data_pos = s.data_pos + 1]
    ELSE \* QUOTE, not inside a quoted field
        IF s.field_length = 0 THEN
            LET dp == s.data_pos + 1 IN
            [s EXCEPT !.quote_escape = TRUE,
                      !.data_pos = dp,
                      !.field_start =
                          IF s.field_start = UNINITIALIZED_FIELD /\ dp < size
                          THEN dp - s.row_start ELSE s.field_start]
        ELSE
            [s EXCEPT !.field_length = s.field_length + 1,
                      !.data_pos = s.data_pos + 1]

RECURSIVE parse_loop(_, _, _)
parse_loop(f, in, s) ==
    IF s.returned \/ s.data_pos >= Len(in) THEN s
    ELSE parse_loop(f, in, parse_step(f, in, s))

(* parse() on a fresh chunk: quote_escape, data_pos and the row start are  *)
(* reset, field_start, field_length and field_has_double_quote are what    *)
(* the caller left. The bytes of the model hold no byte order mark, so     *)
(* trim_utf8_bom changes nothing. The value parse() returns is row_start.  *)
parse_start(field_start, field_length, field_has_double_quote) ==
    [data_pos |-> 0, field_start |-> field_start,
     field_length |-> field_length, quote_escape |-> FALSE,
     field_has_double_quote |-> field_has_double_quote,
     row_start |-> 0, fields_start |-> 0,
     fields |-> <<>>, rows |-> <<>>, returned |-> FALSE]

parse(f, in, field_start, field_length, field_has_double_quote) ==
    parse_loop(f, in,
        parse_start(field_start, field_length, field_has_double_quote))

(* Faulty variant: the unterminated last row is dropped.                   *)
end_feed_drop(f, in, s) == s

(* end_feed(), on the state parse() left.                                  *)
end_feed(f, in, s) ==
    LET empty_last_field ==
            /\ Len(in) > 0
            /\ \/ parse_flag(f, in[Len(in)]) = DELIMITER
               \/ parse_flag(f, in[Len(in)]) = QUOTE
        s1 == IF s.field_length # 0 \/ empty_last_field
              THEN push_field(s) ELSE s
    IN  IF Len(s1.fields) - s1.fields_start > 0 THEN push_row(s1) ELSE s1

----------------------------------------------------------------------------
(* The source adapters. A call of next() is summed up by                   *)
(*   rows    the rows parse() pushed, in order,                            *)
(*   tail    the rows end_feed() pushed after _eof was set,                *)
(*   parser  the members the call leaves behind.                           *)
(* A row is tagged with the chunk it borrows from: base is the chunk's     *)
(* offset in the source and len its length (the row's data_ptr).           *)
(* ics is the value of ITERATION_CHUNK_SIZE in force.                      *)

Min(a, b) == IF a <= b THEN a ELSE b

NewParser ==
    [eof |-> FALSE, pos |-> 0, field_start |-> UNINITIALIZED_FIELD,
     field_length |-> 0, field_has_double_quote |-> FALSE]

no_chunk(source, ics) == Len(source) < ics

InChunk(base, len, rows) ==
    [i \in 1..Len(rows) |->
        [base |-> base, len |-> len,
         data_start |-> rows[i].data_start, fields |-> rows[i].fields]]

(* What a next() that parsed `in` (at offset base, to offset pos_read)     *)
(* leaves, for parse()'s final state s: shared by the two adapters, which  *)
(* differ in where they leave the position when the end is reached.        *)
after_parse(f, source, ics, p, base, in, s, rewind_at_eof) ==
    LET length    == Len(in)
        pos_read  == base + length
        remainder == s.row_start
        at_end    == pos_read = Len(source) \/ no_chunk(source, ics)
        e         == IF at_end THEN end_feed(f, in, s) ELSE s
    IN  [rows |-> InChunk(base, length, s.rows),
         tail |-> InChunk(base, length,
                          SubSeq(e.rows, Len(s.rows) + 1, Len(e.rows))),
         parser |->
            [eof |-> p.eof \/ at_end,
             pos |-> IF at_end /\ ~rewind_at_eof THEN pos_read
                     ELSE pos_read - (length - remainder),
             field_start |-> e.field_start,
             field_length |-> e.field_length,
             field_has_double_quote |-> e.field_has_double_quote]]

(* StreamParser::next: returns at once when eof is set; field_start and    *)
(* field_length are not reset between chunks.                              *)
StreamParser_next(f, source, ics, p, bytes) ==
    IF p.eof THEN [rows |-> <<>>, tail |-> <<>>, parser |-> p]
    ELSE
        LET length == Min(Len(source) - p.pos, bytes)
            in     == SubSeq(source, p.pos + 1, p.pos + length)
            s      == parse(f, in, p.field_start, p.field_length,
                            p.field_has_double_quote)
        IN  after_parse(f, source, ics, p, p.pos, in, s, FALSE)

(* MmapParser::next: no test of eof; field_start and field_length are      *)
(* reset; mmap_pos is moved back past the unfinished row in every case.    *)
MmapParser_next(f, source, ics, p, bytes) ==
    LET length == Min(Len(source) - p.pos, bytes)
        in     == SubSeq(source, p.pos + 1, p.pos + length)
        s      == parse(f, in, UNINITIALIZED_FIELD, 0,
                        p.field_has_double_quote)
    IN  after_parse(f, source, ics, p, p.pos, in, s, TRUE)

parser_next(k, f, source, ics, p, bytes) ==
    IF k = "stream" THEN StreamParser_next(f, source, ics, p, bytes)
    ELSE MmapParser_next(f, source, ics, p, bytes)

----------------------------------------------------------------------------
(* Reading a row's fields as text (CSVRow::get_field and the conversion of *)
(* a CSVRow to a vector of strings, csv/row.h): the span's bytes, cut at   *)
(* the end of the chunk, with each doubled quote of a flagged field        *)
(* reduced to one quote.                                                   *)

RECURSIVE unescape(_, _, _)
unescape(f, text, prev_ch_quote) ==
    IF text = <<>> THEN <<>>
    ELSE IF parse_flag(f, Head(text)) = QUOTE
    THEN IF prev_ch_quote THEN unescape(f, Tail(text), FALSE)
         ELSE <<Head(text)>> \o unescape(f, Tail(text), TRUE)
    ELSE <<Head(text)>> \o unescape(f, Tail(text), prev_ch_quote)

get_field(f, source, row, i) ==
    LET chunk == SubSeq(source, row.base + 1, row.base + row.len)
        fld   == row.fields[i]
        from  == row.data_start + fld.start
        to    == IF fld.length < 0 THEN Len(chunk)
                 ELSE Min(from + fld.length, Len(chunk))
        raw   == SubSeq(chunk, from + 1, to)
    IN  IF fld.has_double_quote THEN unescape(f, raw, FALSE) ELSE raw

row_strings(f, source, row) ==
    [i \in 1..Len(row.fields) |-> get_field(f, source, row, i)]

(* CSVReader::trim_header on a queue q: pops rows 0..header and takes the  *)
(* names from row `header` unless names were given.                        *)
(* set_col_names stores names.size() in n_cols.                            *)
RECURSIVE trim_header(_, _, _, _, _, _)
trim_header(f, source, q, names, cols, i) ==
    IF i > f.header \/ q = <<>>
    THEN [data |-> q, col_names |-> names, n_cols |-> cols]
    ELSE IF i = f.header /\ names = <<>>
    THEN trim_header(f, source, Tail(q), row_strings(f, source, Head(q)),
                     Len(Head(q).fields), i + 1)
    ELSE trim_header(f, source, Tail(q), names, cols, i + 1)

(* ColNames::set_col_names: col_pos[cnames[i]] = i for i upwards, so a     *)
(* name that stands twice keeps its last position (0-based).               *)
col_pos_of(cnames) ==
    [c \in {cnames[i] : i \in 1..Len(cnames)} |->
        (CHOOSE i \in 1..Len(cnames) :
            cnames[i] = c /\ \A j \in (i + 1)..Len(cnames) : cnames[j] # c) - 1]

CSV_NOT_FOUND == -1

(* ColNames::index_of: col_pos.find                                        *)
ColNames_index_of(col_pos, col_name) ==
    IF col_name \in DOMAIN col_pos THEN col_pos[col_name] ELSE CSV_NOT_FOUND

(* CSVReader::index_of: the first i with get_col_names()[i] == col_name    *)
CSVReader_index_of(cnames, col_name) ==
    IF \E i \in 1..Len(cnames) : cnames[i] = col_name
    THEN (CHOOSE i \in 1..Len(cnames) :
             cnames[i] = col_name /\ \A j \in 1..(i - 1) : cnames[j] # col_name) - 1
    ELSE CSV_NOT_FOUND

(* CSVRow::operator[](name) (csv/row.h): the field at the position the     *)
(* row's ColNames gives for the name.                                      *)
field_by_name(f, source, row, col_pos, col_name) ==
    get_field(f, source, row, ColNames_index_of(col_pos, col_name) + 1)

----------------------------------------------------------------------------
(* Specification SpecParse: one buffer, shorter than a chunk, read by one  *)
(* call of StreamParser::next on a fresh parser, then trim_header.         *)

MaxLen == 4
Alphabet == {"a", ",", "\n", "\r", "\""}

RECURSIVE SeqsUpTo(_, _)
SeqsUpTo(S, n) ==
    IF n = 0 THEN {<<>>}
    ELSE LET shorter == SeqsUpTo(S, n - 1)
         IN  shorter \cup
             {Append(x, c) : x \in {y \in shorter : Len(y) = n - 1}, c \in S}

(* CSVFormat(): the member initialisers of the four character settings.    *)
DefaultFormat ==
    [possible_delimiters |-> <<",">>, trim_chars |-> <<>>,
     quote_char |-> "\"", no_quote |-> FALSE]

FIdle == cf = DefaultFormat /\ cf_threw = FALSE

(* A path is prefix, generated name and extension; a plain path has only   *)
(* the first.                                                              *)
Plain(name) == <<name, "", "">>
FilePath == Plain("test.txt")
TempPrefix == "t"
GenNames == {"a", "b"}
Paths ==
    {FilePath, Plain(TempPrefix)} \cup
    {<<TempPrefix, g, e>> : g \in GenNames, e \in {"", "tmp"}}

NoFile == [exists |-> FALSE, bytes |-> <<>>]
INVALID_FILE_HANDLER == <<>>
NoObject ==
    [class |-> "none", fd |-> INVALID_FILE_HANDLER, pos |-> 0,
     path_ |-> Plain(""), ever_opened |-> FALSE, truncating |-> FALSE,
     calls |-> 0]
NoReturn ==
    [op |-> "none", class |-> "none", ok |-> TRUE, value |-> 0, data |-> <<>>,
     len |-> 0, offset |-> 0]

invalid_handle == -1
nullptr == [addr |-> 0, at |-> 0, start |-> 0]
Unmapped ==
    [data_ |-> nullptr, length_ |-> 0, mapped_length_ |-> 0,
     file_handle_ |-> invalid_handle, is_handle_internal_ |-> FALSE]

MIdle ==
    /\ mm = Unmapped /\ mm_before = Unmapped /\ mm_error = "none"
    /\ mm_op = "none" /\ mm_handles = {} /\ mm_mappings = {} /\ mm_size = 0

NoCall == [op |-> "none", codec_type |-> "UNCOMPRESSED", compression_level |-> 0]
NoStatus == [code |-> "none", codec |-> "none"]

CIdle == codec_enabled = {} /\ codec_args = NoCall /\ codec_ret = NoStatus

MaxOpens == 2
MaxCloses == 2
(* Descriptors are handed out in rising order, none twice, so that each    *)
(* open has its own: from 0 when the process has closed its standard       *)
(* input, from 3 otherwise.                                                *)
FirstDescriptors == {0, 3}
Descriptors == 0..(3 + MaxOpens)

HIdle ==
    /\ h_obj = [class |-> "none", fd |-> -1, listener_ |-> 0, alive |-> FALSE]
    /\ h_first = 3 /\ h_opened = <<>>
    /\ h_closes = [d \in Descriptors |-> 0]
    /\ h_events = <<>> /\ h_ret = "none"

XIdle ==
    /\ disk = [p \in Paths |-> NoFile] /\ fo = NoObject /\ fret = NoReturn
    /\ appended = <<>> /\ tracked = FALSE /\ read_back = <<>> /\ created = <<>>

GIdle ==
    g_head = <<>> /\ g_delims = <<",">> /\ g_order = "ascending" /\ g_out = <<>>

RIdle ==
    /\ src = <<>> /\ kind = "none" /\ fmt = CSVFormat /\ file = "present"
    /\ parser = NewParser
    /\ data = <<>> /\ waitable = FALSE /\ notified = FALSE
    /\ header_trimmed = FALSE /\ col_names = <<>> /\ n_cols = 0 /\ n_rows = 0
    /\ joinable = FALSE /\ threads = 0 /\ c_pc = "none" /\ w_pc = "none"
    /\ w_todo = <<>> /\ w_tail = <<>> /\ w_after = NewParser
    /\ delivered = <<>> /\ result = "none" /\ exhausted = -1 /\ began = FALSE

(* The example of the specification: a header and two rows, the last one  *)
(* without a newline.                                                      *)
HeaderAndTwoRows ==
    <<"a", ",", "b", ",", "c", "\n", "1", ",", "2", ",", "3", "\n",
      "4", ",", "5", ",", "6">>

(* Quoted fields with doubled quotes. The text between the enclosing       *)
(* quotes is a sequence of units, a unit being one ordinary byte or one    *)
(* doubled quote; what follows the closing quote is one of Terminators.    *)
MaxUnits == 3
DoubledQuote == <<"\"", "\"">>
Units == {<<"a">>, DoubledQuote}

HeSaidHi ==
    << <<"H">>, <<"e">>, <<" ">>, <<"s">>, <<"a">>, <<"i">>, <<"d">>, <<" ">>,
       DoubledQuote, <<"h">>, <<"i">>, DoubledQuote >>

UnitSeqs ==
    {u \in SeqsUpTo(Units, MaxUnits) : \E i \in 1..Len(u) : u[i] = DoubledQuote}
    \cup {HeSaidHi}

Terminators == {<<>>, <<",">>, <<",", "a">>, <<"\n">>, <<"\n", "a">>}

RECURSIVE Raw(_)
Raw(u) == IF u = <<>> THEN <<>> ELSE Head(u) \o Raw(Tail(u))

RECURSIVE Decoded(_)
Decoded(u) ==
    IF u = <<>> THEN <<>>
    ELSE (IF Head(u) = DoubledQuote THEN <<"\"">> ELSE Head(u))
         \o Decoded(Tail(u))

(* What stands before the opening quote: nothing, or one earlier field.    *)
Leaders == {<<>>, <<"a", ",">>}

Quoted(lead, u, term) == lead \o <<"\"">> \o Raw(u) \o <<"\"">> \o term

(* A header in which one name stands twice.                                *)
RepeatedName == <<"a", ",", "a", "\n", "1", ",", "2">>

(* A quoted field that holds a delimiter and a line break.                 *)
QuotedDelimiterAndBreak == <<"\"", ",", "\n", "\"", ",">>

ParseInputs ==
    SeqsUpTo(Alphabet, MaxLen)
    \cup {HeaderAndTwoRows, RepeatedName, QuotedDelimiterAndBreak}
    \cup {Quoted(lead, u, term) :
              lead \in Leaders, u \in UnitSeqs, term \in Terminators}

PInit ==
    /\ p_in \in ParseInputs
    /\ p_fmt = CSVFormat
    /\ p_out = <<>>
    /\ RIdle /\ GIdle /\ FIdle /\ XIdle /\ MIdle /\ CIdle /\ HIdle

PParse ==
    /\ p_out = <<>>
    /\ LET r == StreamParser_next(p_fmt, p_in, ITERATION_CHUNK_SIZE, NewParser,
                                  ITERATION_CHUNK_SIZE)
           t == trim_header(p_fmt, p_in, r.rows \o r.tail, <<>>, 0, 0)
       IN  p_out' = <<[rows |-> r.rows \o r.tail, parser |-> r.parser,
                       col_names |-> t.col_names,
                       col_pos |-> col_pos_of(t.col_names),
                       data |-> t.data]>>
    /\ UNCHANGED <<p_in, p_fmt, rvars, gvars, fvars, xvars, mvars, cvars, hvars>>

PNext == PParse

SpecParse == PInit /\ [][PNext]_vars

(* C8: the input a,b,c\n1,2,3\n4,5,6 yields the column names a, b, c and   *)
(* exactly two data rows, 1,2,3 then 4,5,6: as spans of the input, and as  *)
(* the text read from them.                                                *)
C8_HeaderAndTwoRows ==
    (p_in = HeaderAndTwoRows /\ p_out # <<>>) =>
        LET o == p_out[1] IN
        /\ o.col_names = << <<"a">>, <<"b">>, <<"c">> >>
        /\ Len(o.data) = 2
        /\ o.data[1].data_start = 6 /\ o.data[2].data_start = 12
        /\ \A r \in 1..2 :
              o.data[r].fields =
                  [i \in 1..3 |-> [start |-> 2 * (i - 1), length |-> 1,
                                   has_double_quote |-> FALSE]]
        /\ row_strings(p_fmt, p_in, o.data[1]) = << <<"1">>, <<"2">>, <<"3">> >>
        /\ row_strings(p_fmt, p_in, o.data[2]) = << <<"4">>, <<"5">>, <<"6">> >>

C8_Witness ==
    p_in = HeaderAndTwoRows /\ p_out # <<>> /\ Len(p_out[1].data) = 2

(* C9: a quoted field with doubled quotes is one field of its row, its     *)
(* span is the text between the enclosing quotes, it is flagged, and it    *)
(* reads as that text with every doubled quote reduced to one quote; the   *)
(* row ends with it unless a delimiter follows the closing quote.          *)
C9_DoubledQuotes ==
    \A lead \in Leaders, u \in UnitSeqs, term \in Terminators :
        (p_in = Quoted(lead, u, term) /\ p_out # <<>>) =>
            LET row == p_out[1].rows[1]
                k   == IF lead = <<>> THEN 1 ELSE 2
            IN
            /\ row.base = 0 /\ row.data_start = 0
            /\ Len(row.fields) =
                   IF term # <<>> /\ Head(term) = "," THEN k + 1 ELSE k
            /\ row.fields[k] = [start |-> Len(lead) + 1,
                                length |-> Len(Raw(u)),
                                has_double_quote |-> TRUE]
            /\ get_field(p_fmt, p_in, row, k) = Decoded(u)

C9_Witness ==
    /\ p_out # <<>>
    /\ \E term \in Terminators :
           term # <<>> /\ p_in = Quoted(<<>>, HeSaidHi, term)
    /\ p_out[1].col_names[1] =
           <<"H", "e", " ", "s", "a", "i", "d", " ", "\"", "h", "i", "\"">>

----------------------------------------------------------------------------
(* Specification Spec: a CSVReader over one source, from its constructor   *)
(* on, with the caller's thread (the consumer) and the read_csv worker     *)
(* thread interleaved. An operation of ThreadSafeDeque that holds _lock    *)
(* from its first to its last statement is one step; a read the code makes *)
(* without _lock is a step of its own.                                     *)

(* ITERATION_CHUNK_SIZE scaled down, so that sources of a few bytes span   *)
(* several chunks, and the queue's notify_size (100 in CSVReader) scaled   *)
(* down, so that a chunk of a few rows reaches the watermark.              *)
ScaledChunk == 7
NotifySize == 2
(* The caller stops calling once it holds this many rows.                  *)
MaxDelivered == 6

Sources ==
    { <<"a", "\n", "1", "\n", "2">>,
      <<"a", ",", "b", "\n", "1", "\n", "2", ",", "3", "\n">>,
      <<"a", ",", "b", "\n", "1", ",", "2", "2", "\n", "3", ",", "4", "\n">>,
      <<"a", ",", "b", "\n", "1", ",", "2", "\n", "3", ",", "4">>,
      <<"a", "\n", "1", "\n", "2", "\n", "3", "\n", "4", "\n", "5", "\n">> }

Policies == {"THROW", "IGNORE_ROW", "KEEP"}

PIdle == p_in = <<>> /\ p_fmt = CSVFormat /\ p_out = <<>>

Init ==
    /\ src \in Sources
    /\ kind \in {"stream", "mmap"}
    /\ fmt \in {[CSVFormat EXCEPT !.variable_column_policy = pol] : pol \in Policies}
    /\ parser = NewParser
    /\ data = <<>> /\ waitable = FALSE /\ notified = FALSE
    /\ header_trimmed = FALSE /\ col_names = <<>> /\ n_cols = 0 /\ n_rows = 0
    /\ joinable = FALSE /\ threads = 0
    /\ file \in (IF kind = "mmap" THEN {"present", "missing"} ELSE {"present"})
    /\ c_pc = "open" /\ w_pc = "off"
    /\ w_todo = <<>> /\ w_tail = <<>> /\ w_after = NewParser
    /\ delivered = <<>> /\ result = "none" /\ exhausted = -1 /\ began = FALSE
    /\ PIdle /\ GIdle /\ FIdle /\ XIdle /\ MIdle /\ CIdle /\ HIdle

(* The predicate of ThreadSafeDeque::wait.                                 *)
wait_pred(q, is_waitable) == Len(q) >= NotifySize \/ ~is_waitable

(* Faulty variant: a notification that reaches nobody.                     *)
cond_notify_none(pc, was) == was

(* _cond.notify_all(): reaches the consumer if it is blocked in wait.      *)
cond_notify_all(pc, was) == was \/ pc = "blocked"

(* std::thread(&CSVReader::read_csv, this, ...)                            *)
start_worker ==
    /\ w_pc' = "notify"
    /\ joinable' = TRUE
    /\ threads' = threads + 1

(* read_csv_worker.join(): returns once the thread has finished.           *)
join_worker ==
    /\ w_pc = "off"
    /\ joinable' = FALSE
    /\ threads' = threads - 1
    /\ UNCHANGED w_pc

Alive == c_pc \notin {"failed", "terminated", "destroyed"}

(* make_mmap_source(filename, ...) sets its error when the path cannot be  *)
(* opened or mapped. The sources of the model are not empty and their      *)
(* lengths are no multiples of the page size, so a mapping of a present    *)
(* file has a length above 0 and succeeds.                                 *)
map_error(k, path) == k = "mmap" /\ path = "missing"

(* The environment: the file is removed, or made unreadable, while the     *)
(* reader is in use.                                                       *)
E_FileLost ==
    /\ Alive /\ kind = "mmap" /\ file = "present"
    /\ file' = "missing"
    /\ UNCHANGED <<src, kind, fmt, parser, data, waitable, notified,
                   header_trimmed, col_names, n_cols, n_rows, joinable,
                   threads, c_pc, w_pc, w_todo, w_tail, w_after, delivered,
                   result, exhausted, began, pvars, gvars, fvars, xvars, mvars, cvars, hvars>>

(* ---- the worker thread: CSVReader::read_csv ---- *)

(* records->notify_all() *)
W_NotifyAll ==
    /\ Alive /\ w_pc = "notify"
    /\ waitable' = TRUE
    /\ notified' = cond_notify_all(c_pc, notified)
    /\ w_pc' = "next"
    /\ UNCHANGED <<src, kind, fmt, file, parser, data, header_trimmed, col_names,
                   n_cols, n_rows, joinable, threads, c_pc, w_todo, w_tail,
                   w_after, delivered, result, exhausted, began, pvars, gvars, fvars, xvars, mvars, cvars, hvars>>

(* parser->next(bytes), up to its first push: what it will push and leave. *)
W_Next ==
    /\ Alive /\ w_pc = "next" /\ ~map_error(kind, file)
    /\ LET r == parser_next(kind, fmt, src, ScaledChunk, parser, ScaledChunk)
       IN  /\ w_todo' = r.rows
           /\ w_tail' = r.tail
           /\ w_after' = r.parser
    /\ w_pc' = "parse"
    /\ UNCHANGED <<src, kind, fmt, file, parser, data, waitable, notified,
                   header_trimmed, col_names, n_cols, n_rows, joinable,
                   threads, c_pc, delivered, result, exhausted, began, pvars, gvars, fvars, xvars, mvars, cvars, hvars>>

(* MmapParser::next: if (error) throw error, on the worker thread, where   *)
(* nothing catches it: std::terminate.                                     *)
W_MapFails ==
    /\ Alive /\ w_pc = "next" /\ map_error(kind, file)
    /\ c_pc' = "terminated"
    /\ result' = "worker_throw"
    /\ UNCHANGED <<src, kind, fmt, file, parser, data, waitable, notified,
                   header_trimmed, col_names, n_cols, n_rows, joinable,
                   threads, w_pc, w_todo, w_tail, w_after, delivered,
                   exhausted, began, pvars, gvars, fvars, xvars, mvars, cvars, hvars>>

(* ThreadSafeDeque::push_back *)
push_back(row) ==
    /\ data' = Append(data, row)
    /\ notified' = IF Len(data) + 1 >= NotifySize
                   THEN cond_notify_all(c_pc, notified) ELSE notified

(* push_row() inside parse() *)
W_Push ==
    /\ Alive /\ w_pc = "parse" /\ w_todo # <<>>
    /\ push_back(Head(w_todo))
    /\ w_todo' = Tail(w_todo)
    /\ UNCHANGED <<src, kind, fmt, file, parser, waitable, header_trimmed,
                   col_names, n_cols, n_rows, joinable, threads, c_pc, w_pc,
                   w_tail, w_after, delivered, result, exhausted, began, pvars, gvars, fvars, xvars, mvars, cvars, hvars>>

(* parse() has returned: next() sets _eof when the end was reached. The    *)
(* other members it leaves are the worker's own until it finishes.         *)
W_ParseEnd ==
    /\ Alive /\ w_pc = "parse" /\ w_todo = <<>>
    /\ parser' = w_after
    /\ w_pc' = IF w_tail # <<>> THEN "feed"
               ELSE IF header_trimmed THEN "kill" ELSE "trim"
    /\ UNCHANGED <<src, kind, fmt, file, data, waitable, notified, header_trimmed,
                   col_names, n_cols, n_rows, joinable, threads, c_pc, w_todo,
                   w_tail, w_after, delivered, result, exhausted, began, pvars, gvars, fvars, xvars, mvars, cvars, hvars>>

(* push_row() inside end_feed() *)
W_Feed ==
    /\ Alive /\ w_pc = "feed"
    /\ push_back(Head(w_tail))
    /\ w_tail' = Tail(w_tail)
    /\ w_pc' = IF Tail(w_tail) # <<>> THEN "feed"
               ELSE IF header_trimmed THEN "kill" ELSE "trim"
    /\ UNCHANGED <<src, kind, fmt, file, parser, waitable, header_trimmed,
                   col_names, n_cols, n_rows, joinable, threads, c_pc, w_todo,
                   w_after, delivered, result, exhausted, began, pvars, gvars, fvars, xvars, mvars, cvars, hvars>>

(* trim_header(), with set_col_names. It runs in the first read_csv only,  *)
(* which the constructor joins before it returns.                          *)
W_TrimHeader ==
    /\ Alive /\ w_pc = "trim"
    /\ LET t == trim_header(fmt, src, data, col_names, n_cols, 0)
       IN  /\ data' = t.data
           /\ col_names' = t.col_names
           /\ n_cols' = t.n_cols
    /\ header_trimmed' = TRUE
    /\ w_pc' = "kill"
    /\ UNCHANGED <<src, kind, fmt, file, parser, waitable, notified, n_rows,
                   joinable, threads, c_pc, w_todo, w_tail, w_after,
                   delivered, result, exhausted, began, pvars, gvars, fvars, xvars, mvars, cvars, hvars>>

(* records->kill_all(), then the thread ends. *)
W_KillAll ==
    /\ Alive /\ w_pc = "kill"
    /\ waitable' = FALSE
    /\ notified' = cond_notify_all(c_pc, notified)
    /\ w_pc' = "off"
    /\ UNCHANGED <<src, kind, fmt, file, parser, data, header_trimmed, col_names,
                   n_cols, n_rows, joinable, threads, c_pc, w_todo, w_tail,
                   w_after, delivered, result, exhausted, began, pvars, gvars, fvars, xvars, mvars, cvars, hvars>>


(* ---- the consumer: the constructor, read_row, begin, the destructor ---- *)

(* CSVReader(filename): get_csv_head maps the head of the file and throws  *)
(* std::runtime_error when that fails. CSVReader(stream) opens nothing.    *)
C_GetHead ==
    /\ c_pc = "open"
    /\ IF map_error(kind, file)
       THEN c_pc' = "failed" /\ result' = "ctor_throw"
       ELSE c_pc' = "ctor" /\ UNCHANGED result
    /\ UNCHANGED <<src, kind, fmt, file, parser, data, waitable, notified,
                   header_trimmed, col_names, n_cols, n_rows, joinable,
                   threads, w_pc, w_todo, w_tail, w_after, delivered,
                   exhausted, began, pvars, gvars, fvars, xvars, mvars, cvars, hvars>>

(* initial_read(): starts the first worker ... *)
C_InitialRead ==
    /\ c_pc = "ctor"
    /\ start_worker
    /\ c_pc' = "ctor_join"
    /\ UNCHANGED <<src, kind, fmt, file, parser, data, waitable, notified,
                   header_trimmed, col_names, n_cols, n_rows, w_todo, w_tail,
                   w_after, delivered, result, exhausted, began, pvars, gvars, fvars, xvars, mvars, cvars, hvars>>

(* ... and joins it before the constructor returns. *)
C_InitialJoin ==
    /\ c_pc = "ctor_join"
    /\ join_worker
    /\ c_pc' = "idle"
    /\ UNCHANGED <<src, kind, fmt, file, parser, data, waitable, notified,
                   header_trimmed, col_names, n_cols, n_rows, w_todo, w_tail,
                   w_after, delivered, result, exhausted, began, pvars, gvars, fvars, xvars, mvars, cvars, hvars>>

(* The caller calls read_row (directly or through an iterator's ++). *)
C_CallReadRow ==
    /\ c_pc = "idle" /\ Len(delivered) < MaxDelivered
    /\ c_pc' = "rr_top"
    /\ result' = "none"
    /\ UNCHANGED <<src, kind, fmt, file, parser, data, waitable, notified,
                   header_trimmed, col_names, n_cols, n_rows, joinable,
                   threads, w_pc, w_todo, w_tail, w_after, delivered,
                   exhausted, began, pvars, gvars, fvars, xvars, mvars, cvars, hvars>>

(* read_row: if (records->empty()), read without _lock *)
RR_Empty ==
    /\ c_pc = "rr_top"
    /\ c_pc' = IF data = <<>> THEN "rr_waitable" ELSE "rr_front"
    /\ UNCHANGED <<src, kind, fmt, file, parser, data, waitable, notified,
                   header_trimmed, col_names, n_cols, n_rows, joinable,
                   threads, w_pc, w_todo, w_tail, w_after, delivered, result,
                   exhausted, began, pvars, gvars, fvars, xvars, mvars, cvars, hvars>>

(* read_row: if (records->is_waitable()), read without _lock *)
RR_IsWaitable ==
    /\ c_pc = "rr_waitable"
    /\ c_pc' = IF waitable THEN "wait_chk" ELSE "rr_eof"
    /\ UNCHANGED <<src, kind, fmt, file, parser, data, waitable, notified,
                   header_trimmed, col_names, n_cols, n_rows, joinable,
                   threads, w_pc, w_todo, w_tail, w_after, delivered, result,
                   exhausted, began, pvars, gvars, fvars, xvars, mvars, cvars, hvars>>

(* wait(): if (!is_waitable()) return, read without _lock *)
Wait_Check ==
    /\ c_pc = "wait_chk"
    /\ c_pc' = IF ~waitable THEN "rr_top" ELSE "wait_lock"
    /\ UNCHANGED <<src, kind, fmt, file, parser, data, waitable, notified,
                   header_trimmed, col_names, n_cols, n_rows, joinable,
                   threads, w_pc, w_todo, w_tail, w_after, delivered, result,
                   exhausted, began, pvars, gvars, fvars, xvars, mvars, cvars, hvars>>

(* wait(): _cond.wait(lock, pred) takes _lock and tests the predicate;     *)
(* when it is false the thread gives up _lock and blocks, in one step.     *)
(* Faulty variant: a wait that blocks without testing its predicate.       *)
wait_enter_blind(q, is_waitable) == "blocked"

wait_enter(q, is_waitable) ==
    IF wait_pred(q, is_waitable) THEN "rr_top" ELSE "blocked"

Wait_Lock ==
    /\ c_pc = "wait_lock"
    /\ c_pc' = wait_enter(data, waitable)
    /\ notified' = FALSE
    /\ UNCHANGED <<src, kind, fmt, file, parser, data, waitable, header_trimmed,
                   col_names, n_cols, n_rows, joinable, threads, w_pc, w_todo,
                   w_tail, w_after, delivered, result, exhausted, began, pvars, gvars, fvars, xvars, mvars, cvars, hvars>>

(* wait(): a notification wakes the thread, which retakes _lock and tests  *)
(* the predicate again.                                                    *)
Wait_Wake ==
    /\ c_pc = "blocked" /\ notified
    /\ notified' = FALSE
    /\ c_pc' = wait_enter(data, waitable)
    /\ UNCHANGED <<src, kind, fmt, file, parser, data, waitable, header_trimmed,
                   col_names, n_cols, n_rows, joinable, threads, w_pc, w_todo,
                   w_tail, w_after, delivered, result, exhausted, began, pvars, gvars, fvars, xvars, mvars, cvars, hvars>>

first_end == IF exhausted = -1 THEN Len(delivered) ELSE exhausted

(* read_row: else if (this->parser->eof()) return false, read without a lock *)
RR_Eof ==
    /\ c_pc = "rr_eof"
    /\ IF parser.eof
       THEN c_pc' = "idle" /\ result' = "false" /\ exhausted' = first_end
       ELSE c_pc' = "rr_join" /\ UNCHANGED <<result, exhausted>>
    /\ UNCHANGED <<src, kind, fmt, file, parser, data, waitable, notified,
                   header_trimmed, col_names, n_cols, n_rows, joinable,
                   threads, w_pc, w_todo, w_tail, w_after, delivered, began,
                   pvars, gvars, fvars, xvars, mvars, cvars, hvars>>

(* read_row: if (read_csv_worker.joinable()) read_csv_worker.join() *)
RR_Join ==
    /\ c_pc = "rr_join"
    /\ IF joinable THEN join_worker ELSE UNCHANGED <<joinable, threads, w_pc>>
    /\ c_pc' = "rr_start"
    /\ UNCHANGED <<src, kind, fmt, file, parser, data, waitable, notified,
                   header_trimmed, col_names, n_cols, n_rows, w_todo,
                   w_tail, w_after, delivered, result, exhausted, began, pvars, gvars, fvars, xvars, mvars, cvars, hvars>>

(* read_row: read_csv_worker = std::thread(...) *)
RR_Start ==
    /\ c_pc = "rr_start"
    /\ start_worker
    /\ c_pc' = "rr_top"
    /\ UNCHANGED <<src, kind, fmt, file, parser, data, waitable, notified,
                   header_trimmed, col_names, n_cols, n_rows, w_todo, w_tail,
                   w_after, delivered, result, exhausted, began, pvars, gvars, fvars, xvars, mvars, cvars, hvars>>

(* read_row: records->front().size() != n_cols && policy != KEEP, read     *)
(* without _lock                                                           *)
bad_row(f, cols, row) ==
    Len(row.fields) # cols /\ f.variable_column_policy # "KEEP"

RR_Front ==
    /\ c_pc = "rr_front"
    /\ c_pc' = IF bad_row(fmt, n_cols, Head(data)) THEN "rr_bad" ELSE "rr_ok"
    /\ UNCHANGED <<src, kind, fmt, file, parser, data, waitable, notified,
                   header_trimmed, col_names, n_cols, n_rows, joinable,
                   threads, w_pc, w_todo, w_tail, w_after, delivered, result,
                   exhausted, began, pvars, gvars, fvars, xvars, mvars, cvars, hvars>>

(* read_row: the row is popped and, under THROW, std::runtime_error thrown *)
RR_PopBad ==
    /\ c_pc = "rr_bad"
    /\ data' = Tail(data)
    /\ IF fmt.variable_column_policy = "THROW"
       THEN c_pc' = "idle" /\ result' = "throw"
       ELSE c_pc' = "rr_top" /\ UNCHANGED result
    /\ UNCHANGED <<src, kind, fmt, file, parser, waitable, notified,
                   header_trimmed, col_names, n_cols, n_rows, joinable,
                   threads, w_pc, w_todo, w_tail, w_after, delivered,
                   exhausted, began, pvars, gvars, fvars, xvars, mvars, cvars, hvars>>

(* read_row: row = records->pop_front(); _n_rows++; return true *)
RR_PopRow ==
    /\ c_pc = "rr_ok"
    /\ delivered' = Append(delivered, Head(data))
    /\ data' = Tail(data)
    /\ n_rows' = n_rows + 1
    /\ c_pc' = "idle" /\ result' = "true"
    /\ UNCHANGED <<src, kind, fmt, file, parser, waitable, notified,
                   header_trimmed, col_names, n_cols, joinable, threads, w_pc,
                   w_todo, w_tail, w_after, exhausted, began, pvars, gvars, fvars, xvars, mvars, cvars, hvars>>

(* The caller calls begin(). *)
C_CallBegin ==
    /\ c_pc = "idle" /\ Len(delivered) < MaxDelivered
    /\ c_pc' = "bg_top"
    /\ result' = "none"
    /\ began' = TRUE
    /\ UNCHANGED <<src, kind, fmt, file, parser, data, waitable, notified,
                   header_trimmed, col_names, n_cols, n_rows, joinable,
                   threads, w_pc, w_todo, w_tail, w_after, delivered,
                   exhausted, pvars, gvars, fvars, xvars, mvars, cvars, hvars>>

(* begin: if (records->empty()), read without _lock *)
BG_Empty ==
    /\ c_pc = "bg_top"
    /\ c_pc' = IF data = <<>> THEN "bg_start" ELSE "bg_pop"
    /\ UNCHANGED <<src, kind, fmt, file, parser, data, waitable, notified,
                   header_trimmed, col_names, n_cols, n_rows, joinable,
                   threads, w_pc, w_todo, w_tail, w_after, delivered, result,
                   exhausted, began, pvars, gvars, fvars, xvars, mvars, cvars, hvars>>

(* begin: read_csv_worker = std::thread(...), with no join before it. The  *)
(* new thread exists once the temporary is built; assigning it to a        *)
(* read_csv_worker that is still joinable calls std::terminate.            *)
BG_Start ==
    /\ c_pc = "bg_start"
    /\ IF joinable
       THEN /\ threads' = threads + 1
            /\ c_pc' = "terminated"
            /\ result' = "terminate"
            /\ UNCHANGED <<joinable, w_pc>>
       ELSE /\ start_worker
            /\ c_pc' = "bg_join"
            /\ UNCHANGED result
    /\ UNCHANGED <<src, kind, fmt, file, parser, data, waitable, notified,
                   header_trimmed, col_names, n_cols, n_rows, w_todo, w_tail,
                   w_after, delivered, exhausted, began, pvars, gvars, fvars, xvars, mvars, cvars, hvars>>

(* begin: read_csv_worker.join() *)
BG_Join ==
    /\ c_pc = "bg_join"
    /\ join_worker
    /\ c_pc' = "bg_chk"
    /\ UNCHANGED <<src, kind, fmt, file, parser, data, waitable, notified,
                   header_trimmed, col_names, n_cols, n_rows, w_todo, w_tail,
                   w_after, delivered, result, exhausted, began, pvars, gvars, fvars, xvars, mvars, cvars, hvars>>

(* begin: if (records->empty()) return end() *)
BG_StillEmpty ==
    /\ c_pc = "bg_chk"
    /\ IF data = <<>>
       THEN c_pc' = "idle" /\ result' = "end" /\ exhausted' = first_end
       ELSE c_pc' = "bg_pop" /\ UNCHANGED <<result, exhausted>>
    /\ UNCHANGED <<src, kind, fmt, file, parser, data, waitable, notified,
                   header_trimmed, col_names, n_cols, n_rows, joinable,
                   threads, w_pc, w_todo, w_tail, w_after, delivered, began,
                   pvars, gvars, fvars, xvars, mvars, cvars, hvars>>

(* begin: iterator ret(this, records->pop_front()) *)
BG_PopRow ==
    /\ c_pc = "bg_pop"
    /\ delivered' = Append(delivered, Head(data))
    /\ data' = Tail(data)
    /\ c_pc' = "idle" /\ result' = "row"
    /\ UNCHANGED <<src, kind, fmt, file, parser, waitable, notified,
                   header_trimmed, col_names, n_cols, n_rows, joinable,
                   threads, w_pc, w_todo, w_tail, w_after, exhausted, began,
                   pvars, gvars, fvars, xvars, mvars, cvars, hvars>>

(* ~CSVReader(): joins the worker if it is joinable. *)
C_Destroy ==
    /\ c_pc = "idle"
    /\ IF joinable THEN join_worker ELSE UNCHANGED <<joinable, threads, w_pc>>
    /\ c_pc' = "destroyed"
    /\ UNCHANGED <<src, kind, fmt, file, parser, data, waitable, notified,
                   header_trimmed, col_names, n_cols, n_rows, w_todo,
                   w_tail, w_after, delivered, result, exhausted, began, pvars, gvars, fvars, xvars, mvars, cvars, hvars>>

Next ==
    \/ E_FileLost
    \/ C_GetHead
    \/ W_MapFails
    \/ W_NotifyAll \/ W_Next \/ W_Push \/ W_ParseEnd \/ W_Feed
    \/ W_TrimHeader \/ W_KillAll
    \/ C_InitialRead \/ C_InitialJoin
    \/ C_CallReadRow \/ RR_Empty \/ RR_IsWaitable \/ Wait_Check \/ Wait_Lock
    \/ Wait_Wake \/ RR_Eof \/ RR_Join \/ RR_Start \/ RR_Front \/ RR_PopBad
    \/ RR_PopRow
    \/ C_CallBegin \/ BG_Empty \/ BG_Start \/ BG_Join \/ BG_StillEmpty
    \/ BG_PopRow
    \/ C_Destroy

Spec == Init /\ [][Next]_vars


----------------------------------------------------------------------------
(* Properties of the reader (specification Spec).                          *)

InReadRow ==
    c_pc \in {"rr_top", "rr_waitable", "wait_chk", "wait_lock", "blocked",
              "rr_eof", "rr_join", "rr_start", "rr_front", "rr_bad", "rr_ok"}

(* C1, as the specification words it: once the parser has reached the end  *)
(* of the source and the queue is empty, the consumer is never blocked in  *)
(* wait.                                                                   *)
C1_NeverBlockedAtEnd ==
    (parser.eof /\ data = <<>>) => c_pc # "blocked"

(* C1, amended: once the parser has reached the end of the source and the  *)
(* queue is empty, the consumer is blocked in wait only while a worker has *)
(* its kill_all still to come, or with the wake-up of a kill_all already   *)
(* on its way; it is never left blocked with no worker and no wake-up.     *)
C1_BlockedOnlyUntilKillAll ==
    (parser.eof /\ data = <<>> /\ c_pc = "blocked") =>
        (notified \/ w_pc \in {"notify", "next", "parse", "feed", "kill"})

C1_Witness ==
    parser.eof /\ data = <<>> /\ c_pc = "blocked" /\ notified /\ w_pc = "off"

(* C2: once the reader has reported its end (read_row returned false or    *)
(* begin returned end()), later calls hand out no further row and raise no *)
(* error.                                                                  *)
C2_NothingAfterExhaustion ==
    exhausted # -1 =>
        /\ Len(delivered) = exhausted
        /\ result \notin {"throw", "terminate"}

(* C3: at most one read_csv thread exists at any time.                     *)
C3_AtMostOneWorker == threads <= 1

(* C4: no wake-up is lost: a consumer blocked in wait whose predicate has  *)
(* become true (the queue reached the watermark, or kill_all was called)   *)
(* has been notified.                                                      *)
C4_NoLostWakeup ==
    (c_pc = "blocked" /\ wait_pred(data, waitable)) => notified

C4_Witness ==
    c_pc = "blocked" /\ notified /\ Len(data) >= NotifySize /\ waitable

(* C5: the consumer never reads the queue without _lock (empty, front,     *)
(* size) at a moment when the worker's next step writes the queue.         *)
ConsumerReadsQueueUnlocked ==
    c_pc \in {"rr_top", "rr_front", "bg_top", "bg_chk"}

WorkerWritesQueue ==
    Alive /\ ( (w_pc = "parse" /\ w_todo # <<>>) \/ w_pc = "feed"
               \/ w_pc = "trim" )

C5_NoRaceOnQueue == ~(ConsumerReadsQueueUnlocked /\ WorkerWritesQueue)

(* C6: under THROW and IGNORE_ROW no row handed to the caller, by read_row *)
(* or by begin, has a field count other than the number of columns.        *)
C6_PolicyOnEveryRow ==
    \A i \in 1..Len(delivered) : ~bad_row(fmt, n_cols, delivered[i])

(* The fields of a row as spans of the source: offset of the first byte,   *)
(* length, flag.                                                           *)
abs_row(row) ==
    [i \in 1..Len(row.fields) |->
        [start |-> row.base + row.data_start + row.fields[i].start,
         length |-> row.fields[i].length,
         has_double_quote |-> row.fields[i].has_double_quote]]

abs_rows(rows) == [i \in 1..Len(rows) |-> abs_row(rows[i])]

RECURSIVE keep_good(_, _, _)
keep_good(f, cols, rows) ==
    IF rows = <<>> THEN <<>>
    ELSE IF bad_row(f, cols, Head(rows)) THEN keep_good(f, cols, Tail(rows))
    ELSE <<Head(rows)>> \o keep_good(f, cols, Tail(rows))

(* The data rows of the whole source parsed as one chunk by a fresh        *)
(* parser of kind k, the header trimmed and the policy applied.            *)
whole_parse(k, f, source) ==
    LET r == parser_next(k, f, source, Len(source) + 1, NewParser,
                         Len(source) + 1)
        t == trim_header(f, source, r.rows \o r.tail, <<>>, 0, 0)
    IN  keep_good(f, t.n_cols, t.data)

IsPrefix(a, b) == Len(a) <= Len(b) /\ a = SubSeq(b, 1, Len(a))

(* C7: for a caller that uses read_row only, the rows delivered are, span  *)
(* for span, a prefix of the rows of the whole source parsed as a single   *)
(* chunk, and all of them once read_row has returned false.                *)
C7_ChunksEqualWhole ==
    ~began =>
        LET ref == abs_rows(whole_parse(kind, fmt, src))
            got == abs_rows(delivered)
        IN  /\ IsPrefix(got, ref)
            /\ result = "false" => got = ref


----------------------------------------------------------------------------
(* Specification SpecGuess: one call of internals::_guess_format on the    *)
(* head of a file.                                                         *)

MaxHead == 5

(* Two longer heads: rows of 1, 1 and 3 fields under ','; and two rows of  *)
(* 2 fields under ';'.                                                     *)
HeadExamples ==
    { <<"a", "\n", "a", "\n", ",", ",">>,
      <<"a", ";", "a", "\n", "a", ";">> }
HeadAlphabet == {"a", ",", ";", "\n"}
DelimLists == {<<",">>, <<",", ";">>, <<";", ",">>}

(* The lengths of the rows StreamParser::next yields for the head, in row  *)
(* order: calculate_score's `rows`, each read by row.size().               *)
row_sizes(f, head) ==
    LET r    == StreamParser_next(f, head, ITERATION_CHUNK_SIZE, NewParser,
                                  ITERATION_CHUNK_SIZE)
        rows == r.rows \o r.tail
    IN  [i \in 1..Len(rows) |-> Len(rows[i].fields)]

(* row_tally[size] and row_when[size] (a 0-based row number).              *)
row_tally(sizes, size) == Cardinality({i \in 1..Len(sizes) : sizes[i] = size})

row_when(sizes, size) ==
    (CHOOSE i \in 1..Len(sizes) :
        sizes[i] = size /\ \A j \in 1..(i - 1) : sizes[j] # size) - 1

(* Iteration over a std::unordered_map: the language fixes no order, a   *)
(* build has one. The orders of the model: by key, upwards or downwards,  *)
(* and by insertion, oldest or newest first.                              *)
MapOrders == {"ascending", "descending", "first_seen", "last_seen"}

map_rank(order, sizes, size) ==
    CASE order = "ascending"  -> size
      [] order = "descending" -> 0 - size
      [] order = "first_seen" -> row_when(sizes, size)
      [] order = "last_seen"  -> 0 - row_when(sizes, size)

(* Faulty variant: the entry kept among those of the largest product is   *)
(* any of them, whatever the build's order.                               *)
calculate_score_any(f, head, order) ==
    LET sizes  == row_sizes(f, head)
        seen   == {sizes[i] : i \in 1..Len(sizes)}
        score(size) == size * row_tally(sizes, size)
        best   == {size \in seen : \A other \in seen : score(size) >= score(other)}
    IN  IF seen = {} THEN {[score |-> 0, header |-> 0]}
        ELSE {[score |-> score(size), header |-> row_when(sizes, size)] :
                 size \in best}

(* calculate_score: the GuessScore it returns, as a set of one. The loop   *)
(* over row_tally keeps the first entry, in the map's order, whose         *)
(* row_size * row_count is largest (the comparison is a strict >).         *)
calculate_score(f, head, order) ==
    LET sizes  == row_sizes(f, head)
        seen   == {sizes[i] : i \in 1..Len(sizes)}
        score(size) == size * row_tally(sizes, size)
        best   == {size \in seen : \A other \in seen : score(size) >= score(other)}
        kept   == CHOOSE size \in best :
                      \A other \in best :
                          map_rank(order, sizes, size)
                              <= map_rank(order, sizes, other)
    IN  IF seen = {} THEN {[score |-> 0, header |-> 0]}
        ELSE {[score |-> score(kept), header |-> row_when(sizes, kept)]}

(* _guess_format: the loop over the candidates from candidate i on, acc    *)
(* holding max_score, current_delim and header; the set of its outcomes.   *)
RECURSIVE guess_from(_, _, _, _, _)
guess_from(head, delims, order, i, acc) ==
    IF i > Len(delims) THEN {[delim |-> acc.delim, header |-> acc.header]}
    ELSE UNION {
            guess_from(head, delims, order, i + 1,
                IF res.score > acc.max_score
                THEN [max_score |-> res.score, delim |-> delims[i],
                      header |-> res.header]
                ELSE acc) :
            res \in calculate_score([CSVFormat EXCEPT !.delim = delims[i]],
                                    head, order) }

(* Faulty variant: current_delim is never moved off the first candidate.   *)
guess_first(head, delims, order) == {[delim |-> delims[1], header |-> 0]}

guess_format(head, delims, order) ==
    guess_from(head, delims, order, 1,
               [max_score |-> 0, delim |-> delims[1], header |-> 0])

(* The caller guesses the format of the same head this many times.         *)
MaxCalls == 2

GInit ==
    /\ g_head \in SeqsUpTo(HeadAlphabet, MaxHead) \cup HeadExamples
    /\ g_delims \in DelimLists
    /\ g_order \in MapOrders
    /\ g_out = <<>>
    /\ RIdle /\ PIdle /\ FIdle /\ XIdle /\ MIdle /\ CIdle /\ HIdle

GGuess ==
    /\ Len(g_out) < MaxCalls
    /\ \E res \in guess_format(g_head, g_delims, g_order) :
           g_out' = Append(g_out, res)
    /\ UNCHANGED <<g_head, g_delims, g_order, rvars, pvars, fvars, xvars, mvars, cvars, hvars>>

GNext == GGuess

SpecGuess == GInit /\ [][GNext]_vars

(* The most common row lengths of the head under delimiter d.              *)
modal_sizes(d, head) ==
    LET sizes == row_sizes([CSVFormat EXCEPT !.delim = d], head)
        seen  == {sizes[i] : i \in 1..Len(sizes)}
    IN  {size \in seen :
            \A other \in seen :
                row_tally(sizes, size) >= row_tally(sizes, other)}

modal_score(d, head, size) ==
    size * row_tally(row_sizes([CSVFormat EXCEPT !.delim = d], head), size)

(* C10: the guess is a candidate delimiter whose most common row length    *)
(* times the number of rows of that length is maximal among the            *)
(* candidates, and the header row is the first row of that most common     *)
(* length (a tie between lengths or between candidates may be settled      *)
(* either way).                                                            *)
C10_ModalLengthRule ==
    g_out # <<>> =>
        LET d     == g_out[1].delim
            cands == {g_delims[i] : i \in 1..Len(g_delims)}
        IN  \/ /\ \A c \in cands : modal_sizes(c, g_head) = {}
               /\ g_out[1].header = 0
            \/ \E size \in modal_sizes(d, g_head) :
                  /\ g_out[1].header =
                         row_when(row_sizes([CSVFormat EXCEPT !.delim = d],
                                            g_head), size)
                  /\ \A c \in cands :
                        \/ modal_sizes(c, g_head) = {}
                        \/ \E other \in modal_sizes(c, g_head) :
                              modal_score(d, g_head, size)
                                  >= modal_score(c, g_head, other)


Candidates == {g_delims[i] : i \in 1..Len(g_delims)}

(* Every row of the head has the same number of fields under delimiter d,  *)
(* and there is at least one row.                                          *)
consistent(d, head) ==
    LET sizes == row_sizes([CSVFormat EXCEPT !.delim = d], head)
    IN  Len(sizes) > 0 /\ \A i \in 1..Len(sizes) : sizes[i] = sizes[1]

columns(d, head) == row_sizes([CSVFormat EXCEPT !.delim = d], head)[1]

occurs(c, head) == \E i \in 1..Len(head) : head[i] = c

----------------------------------------------------------------------------
(* C13: for every data row and every column name c of the header, the      *)
(* field found by name c is the field found at the position the reader     *)
(* gives for c (CSVReader::index_of), whenever the row has both.           *)
C13_NameEqualsPosition ==
    p_out # <<>> =>
        LET o == p_out[1] IN
        \A r \in 1..Len(o.data), k \in 1..Len(o.col_names) :
            LET c      == o.col_names[k]
                at     == CSVReader_index_of(o.col_names, c) + 1
                named  == ColNames_index_of(o.col_pos, c) + 1
            IN  (at <= Len(o.data[r].fields) /\ named <= Len(o.data[r].fields))
                => field_by_name(p_fmt, p_in, o.data[r], o.col_pos, c)
                       = get_field(p_fmt, p_in, o.data[r], at)


(* C14: a worker thread is started only when none is outstanding, and no   *)
(* worker is left once the reader has been destroyed.                      *)
C14_WorkersJoined ==
    /\ [](c_pc = "destroyed" => (threads = 0 /\ w_pc = "off"))
    /\ [][threads' > threads => (threads = 0 /\ ~joinable)]_vars


(* C15: a failure to open or map the file reaches the caller as an         *)
(* exception thrown from the constructor, and in no other way.             *)
C15_FailureFromConstructor ==
    (result \in {"ctor_throw", "worker_throw"} \/ c_pc = "failed") =>
        (result = "ctor_throw" /\ c_pc = "failed")

(* CSVReader::empty: n_rows() == 0, the rows handed out by read_row so far *)
CSVReader_empty == n_rows = 0

(* C16: whenever the caller holds the reader between two calls, empty()    *)
(* is true exactly when the source has no valid data row after the header, *)
(* however many rows have been read by then.                               *)
C16_EmptyIffNoDataRows ==
    c_pc = "idle" => (CSVReader_empty <=> whole_parse(kind, fmt, src) = <<>>)

(***************************************************************************)
(* The CSVFormat setters (format.h). SpecFormat applies sequences of       *)
(* setter calls to one named CSVFormat object whose caller catches the     *)
(* exceptions.                                                             *)
(***************************************************************************)
MaxChars == 2
FormatChars == {",", "\"", " "}
CharLists == SeqsUpTo(FormatChars, MaxChars)

Range(s) == {s[i] : i \in 1..Len(s)}

(* assert_no_char_overlap: the offending characters it collects; it throws *)
(* when there is one.                                                      *)
assert_no_char_overlap(f) ==
    LET delims == Range(f.possible_delimiters)
        trims == Range(f.trim_chars)
    IN  (delims \cap trims) \cup
        (IF f.quote_char \in delims \/ f.quote_char \in trims
         THEN {f.quote_char} ELSE {})

(* Each setter assigns its member first and checks afterwards. *)
F_delimiter ==
    \E delim \in FormatChars :
        /\ cf' = [cf EXCEPT !.possible_delimiters = <<delim>>]
        /\ cf_threw' = (assert_no_char_overlap(cf') # {})
        /\ UNCHANGED <<rvars, pvars, gvars, xvars, mvars, cvars, hvars>>

F_delimiters ==
    \E delim \in CharLists :
        /\ cf' = [cf EXCEPT !.possible_delimiters = delim]
        /\ cf_threw' = (assert_no_char_overlap(cf') # {})
        /\ UNCHANGED <<rvars, pvars, gvars, xvars, mvars, cvars, hvars>>

F_quote ==
    \E quote \in FormatChars :
        /\ cf' = [cf EXCEPT !.no_quote = FALSE, !.quote_char = quote]
        /\ cf_threw' = (assert_no_char_overlap(cf') # {})
        /\ UNCHANGED <<rvars, pvars, gvars, xvars, mvars, cvars, hvars>>

F_trim ==
    \E chars \in CharLists :
        /\ cf' = [cf EXCEPT !.trim_chars = chars]
        /\ cf_threw' = (assert_no_char_overlap(cf') # {})
        /\ UNCHANGED <<rvars, pvars, gvars, xvars, mvars, cvars, hvars>>

(* quote(bool) checks nothing. *)
F_use_quote ==
    \E use_quote \in BOOLEAN :
        /\ cf' = [cf EXCEPT !.no_quote = ~use_quote]
        /\ cf_threw' = FALSE
        /\ UNCHANGED <<rvars, pvars, gvars, xvars, mvars, cvars, hvars>>

FInit ==
    /\ cf = DefaultFormat /\ cf_threw = FALSE
    /\ RIdle /\ PIdle /\ GIdle /\ XIdle /\ MIdle /\ CIdle /\ HIdle

FNext == F_delimiter \/ F_delimiters \/ F_quote \/ F_trim \/ F_use_quote

SpecFormat == FInit /\ [][FNext]_vars

PairwiseDisjoint(f) ==
    /\ Range(f.possible_delimiters) \cap Range(f.trim_chars) = {}
    /\ f.quote_char \notin Range(f.possible_delimiters)
    /\ f.quote_char \notin Range(f.trim_chars)

(* C17: a checking setter throws exactly when the three settings overlap,  *)
(* and the CSVFormat object never holds overlapping characters, whatever   *)
(* setters were called on it.                                              *)
C17_NeverOverlapping ==
    /\ cf_threw => ~PairwiseDisjoint(cf)
    /\ PairwiseDisjoint(cf)

(***************************************************************************)
(* The local file classes (alkaid/files). SpecFile has one file object     *)
(* alive at a time over a small directory: the objects share nothing but   *)
(* the files. The kernel transfers every byte it is asked for (a regular   *)
(* file, no signal, room on the device).                                   *)
(***************************************************************************)
IntBits == 3
MaxAppends == 2
MaxOffset == 2
(* The calls since the open are counted up to this many. *)
ManyCalls == 2

(* The conversion of a size_t argument to the int parameter `count` of     *)
(* sys_write, sys_read and sys_pread.                                      *)
to_int(len) ==
    LET m == len % (2 ^ IntBits)
    IN  IF m >= 2 ^ (IntBits - 1) THEN m - 2 ^ IntBits ELSE m

(* Lengths around the limits of int. *)
LenArgs ==
    {0, 1, 2, 2 ^ (IntBits - 1) - 1, 2 ^ (IntBits - 1), 2 ^ IntBits,
     2 ^ IntBits + 1}

RECURSIVE Flat(_)
Flat(buffers) ==
    IF buffers = <<>> THEN <<>> ELSE Head(buffers) \o Flat(Tail(buffers))

(* The caller's buffer of len bytes. *)
Buf(len) == [i \in 1..len |-> i]

Classes ==
    {"SequentialWriteFile", "SequentialReadFile", "RandomReadFile",
     "lfs::TempFile", "TempFile"}

(* sys_write: one writev of iov_len = static_cast<size_t>(count); a        *)
(* negative count is a length above SSIZE_MAX, which writev refuses.       *)
sys_write(bytes, buff, len) ==
    LET count == to_int(len)
    IN  IF count < 0 THEN [n |-> -1, bytes |-> bytes]
        ELSE [n |-> count, bytes |-> bytes \o SubSeq(buff, 1, count)]

(* sys_pread: one preadv at offset. *)
sys_pread(bytes, len, offset) ==
    LET count == to_int(len)
        left == IF offset < Len(bytes) THEN Len(bytes) - offset ELSE 0
        n == Min(count, left)
    IN  IF count < 0 THEN [n |-> -1, data |-> <<>>]
        ELSE [n |-> n, data |-> SubSeq(bytes, offset + 1, offset + n)]

(* sys_read: one readv at the position of the descriptor. *)
sys_read(bytes, pos, len) == sys_pread(bytes, len, pos)

(* open_file: ::open(filename, option.flags, option.mode) *)
open_file(d, path, option) ==
    IF option = "read" THEN [ok |-> d[path].exists, disk |-> d]
    ELSE IF option = "truncate" \/ ~d[path].exists
    THEN [ok |-> TRUE, disk |-> [d EXCEPT ![path] = [exists |-> TRUE, bytes |-> <<>>]]]
    ELSE [ok |-> TRUE, disk |-> d]

(* filesystem::remove(path, ec) *)
remove(d, path) == IF path \in Paths THEN [d EXCEPT ![path] = NoFile] ELSE d

Returned(op, ok, value, bytes, len) ==
    [op |-> op, class |-> fo.class, ok |-> ok, value |-> value,
     data |-> bytes, len |-> len, offset |-> 0]

X_New ==
    /\ fo.class = "none"
    /\ \E c \in Classes : fo' = [NoObject EXCEPT !.class = c]
    /\ fret' = NoReturn /\ read_back' = <<>> /\ created' = <<>>
    /\ UNCHANGED <<disk, appended, tracked, rvars, pvars, gvars, fvars, mvars, cvars, hvars>>

(* lfs::SequentialWriteFile::open *)
SW_open ==
    /\ fo.class = "SequentialWriteFile"
    /\ \E option \in {"truncate", "append"} :
        LET rs == open_file(disk, FilePath, option)
        IN  /\ disk' = rs.disk
            /\ fo' = [fo EXCEPT !.path_ = FilePath, !.fd = FilePath,
                                !.truncating = (option = "truncate"),
                                !.calls = 0]
            /\ tracked' = IF option = "truncate" THEN TRUE
                          ELSE tracked /\ disk[FilePath].exists
            /\ appended' = IF option = "truncate" \/ ~disk[FilePath].exists
                           THEN <<>> ELSE appended
    /\ fret' = Returned("SequentialWriteFile::open", TRUE, 0, <<>>, 0)
    /\ UNCHANGED <<read_back, created, rvars, pvars, gvars, fvars, mvars, cvars, hvars>>

(* lfs::SequentialWriteFile::size *)
SW_size ==
    /\ fo.class = "SequentialWriteFile"
    /\ fret' = IF fo.fd = INVALID_FILE_HANDLER
               THEN Returned("SequentialWriteFile::size", FALSE, 0, <<>>, 0)
               ELSE Returned("SequentialWriteFile::size", TRUE,
                             Len(disk[fo.fd].bytes), <<>>, 0)
    /\ UNCHANGED <<disk, fo, appended, tracked, read_back, created, rvars, pvars, gvars, fvars, mvars, cvars, hvars>>

(* SequentialFileWriter::append(buff, length) and                          *)
(* lfs::SequentialWriteFile::append_impl                                   *)
SW_append ==
    /\ fo.class = "SequentialWriteFile"
    /\ \E len \in LenArgs :
        /\ Len(appended) < MaxAppends
        /\ IF fo.fd = INVALID_FILE_HANDLER
           THEN /\ fret' = Returned("append", FALSE, 0, <<>>, len)
                /\ UNCHANGED <<disk, fo, appended>>
           ELSE LET r == sys_write(disk[fo.fd].bytes, Buf(len), len)
                IN  IF r.n = -1
                    THEN /\ fret' = Returned("append", FALSE, 0, <<>>, len)
                         /\ UNCHANGED <<disk, fo, appended>>
                    ELSE /\ disk' = [disk EXCEPT ![fo.fd].bytes = r.bytes]
                         /\ fo' = [fo EXCEPT !.calls = Min(@ + 1, ManyCalls)]
                         /\ appended' = Append(appended, Buf(len))
                         /\ fret' = Returned("append", TRUE, 0, <<>>, len)
    /\ UNCHANGED <<tracked, read_back, created, rvars, pvars, gvars, fvars, mvars, cvars, hvars>>

(* lfs::SequentialWriteFile::close *)
SW_close ==
    /\ fo.class = "SequentialWriteFile"
    /\ fo' = [fo EXCEPT !.fd = INVALID_FILE_HANDLER]
    /\ fret' = Returned("SequentialWriteFile::close", TRUE, 0, <<>>, 0)
    /\ UNCHANGED <<disk, appended, tracked, read_back, created, rvars, pvars, gvars, fvars, mvars, cvars, hvars>>

(* lfs::SequentialReadFile::open: close_impl, then open_file *)
SR_open ==
    /\ fo.class = "SequentialReadFile"
    /\ LET rs == open_file(disk, FilePath, "read")
       IN  /\ fo' = [fo EXCEPT !.path_ = FilePath, !.pos = 0, !.calls = 0,
                               !.fd = IF rs.ok THEN FilePath
                                      ELSE INVALID_FILE_HANDLER]
           /\ fret' = Returned("SequentialReadFile::open", rs.ok, 0, <<>>, 0)
    /\ read_back' = <<>>
    /\ UNCHANGED <<disk, appended, tracked, created, rvars, pvars, gvars, fvars, mvars, cvars, hvars>>

(* lfs::SequentialReadFile::size *)
SR_size ==
    /\ fo.class = "SequentialReadFile"
    /\ fret' = IF fo.fd = INVALID_FILE_HANDLER
               THEN Returned("SequentialReadFile::size", FALSE, 0, <<>>, 0)
               ELSE Returned("SequentialReadFile::size", TRUE,
                             Len(disk[fo.fd].bytes), <<>>, 0)
    /\ UNCHANGED <<disk, fo, appended, tracked, read_back, created, rvars, pvars, gvars, fvars, mvars, cvars, hvars>>

(* SequentialFileReader::read(buff, len) and                               *)
(* lfs::SequentialReadFile::read_impl                                      *)
SR_read ==
    /\ fo.class = "SequentialReadFile"
    /\ \E len \in LenArgs :
        IF fo.fd = INVALID_FILE_HANDLER
        THEN /\ fret' = Returned("read", FALSE, 0, <<>>, len)
             /\ UNCHANGED <<fo, read_back>>
        ELSE IF len = 0
        THEN /\ fret' = Returned("read", TRUE, 0, <<>>, len)
             /\ fo' = [fo EXCEPT !.calls = Min(@ + 1, ManyCalls)]
             /\ UNCHANGED read_back
        ELSE LET r == sys_read(disk[fo.fd].bytes, fo.pos, len)
             IN  IF r.n < 0
                 THEN /\ fret' = Returned("read", FALSE, 0, <<>>, len)
                      /\ UNCHANGED <<fo, read_back>>
                 ELSE /\ fret' = Returned("read", TRUE, r.n, r.data, len)
                      /\ fo' = [fo EXCEPT !.pos = @ + r.n, !.calls = Min(@ + 1, ManyCalls)]
                      /\ read_back' = read_back \o r.data
    /\ UNCHANGED <<disk, appended, tracked, created, rvars, pvars, gvars, fvars, mvars, cvars, hvars>>

(* lfs::RandomReadFile::open: close_impl, then open_file *)
RA_open ==
    /\ fo.class = "RandomReadFile"
    /\ LET rs == open_file(disk, FilePath, "read")
       IN  /\ fo' = [fo EXCEPT !.path_ = FilePath,
                               !.fd = IF rs.ok THEN FilePath
                                      ELSE INVALID_FILE_HANDLER]
           /\ fret' = Returned("RandomReadFile::open", rs.ok, 0, <<>>, 0)
    /\ UNCHANGED <<disk, appended, tracked, read_back, created, rvars, pvars, gvars, fvars, mvars, cvars, hvars>>

(* RandomAccessFileReader::read_at(offset, buff, len) and                  *)
(* lfs::RandomReadFile::read_at_impl: the result is has_read, which is     *)
(* never assigned after its initialisation to 0.                           *)
RA_read_at ==
    /\ fo.class = "RandomReadFile"
    /\ \E offset \in 0..MaxOffset, len \in LenArgs :
        IF fo.fd = INVALID_FILE_HANDLER
        THEN fret' = Returned("read_at", FALSE, 0, <<>>, len)
        ELSE LET has_read == 0
                 r == sys_pread(disk[fo.fd].bytes, len, offset)
             IN  IF r.n < 0
                 THEN fret' = Returned("read_at", FALSE, 0, <<>>, len)
                 ELSE fret' = [Returned("read_at", TRUE, has_read, r.data, len)
                               EXCEPT !.offset = offset]
    /\ UNCHANGED <<disk, fo, appended, tracked, read_back, created, rvars, pvars, gvars, fvars, mvars, cvars, hvars>>

(* lfs::TempFile::close_impl *)
LT_close_impl(d, o) ==
    [disk |-> remove(d, o.path_),
     fo |-> [o EXCEPT !.fd = INVALID_FILE_HANDLER]]

(* lfs::TempFile::open(path, ...): the name is generated into path_, and   *)
(* open_file is given path.                                                *)
LT_open ==
    /\ fo.class = "lfs::TempFile"
    /\ \E gen_name \in GenNames :
        LET c == LT_close_impl(disk, fo)
            path == Plain(TempPrefix)
            rs == open_file(c.disk, path, "truncate")
        IN  /\ disk' = rs.disk
            /\ fo' = [c.fo EXCEPT !.path_ = <<TempPrefix, gen_name, "tmp">>,
                                  !.fd = path]
            /\ created' = path
    /\ fret' = Returned("lfs::TempFile::open", TRUE, 0, <<>>, 0)
    /\ UNCHANGED <<appended, tracked, read_back, rvars, pvars, gvars, fvars, mvars, cvars, hvars>>

(* alkaid::TempFile::open(prefix, ext = "", bits) *)
TF_open ==
    /\ fo.class = "TempFile"
    /\ IF fo.ever_opened
       THEN UNCHANGED <<disk, fo, created>>
       ELSE \E gen_name \in GenNames :
            LET path == <<TempPrefix, gen_name, "">>
                rs == open_file(disk, path, "truncate")
            IN  /\ disk' = rs.disk
                /\ fo' = [fo EXCEPT !.path_ = path, !.fd = path,
                                    !.ever_opened = TRUE]
                /\ created' = path
    /\ fret' = Returned("TempFile::open", TRUE, 0, <<>>, 0)
    /\ UNCHANGED <<appended, tracked, read_back, rvars, pvars, gvars, fvars, mvars, cvars, hvars>>

(* The destructors: lfs::TempFile runs its close_impl, alkaid::TempFile    *)
(* runs _file.close(), the others run their close_impl.                    *)
X_Destroy ==
    /\ fo.class # "none"
    /\ disk' = IF fo.class = "lfs::TempFile"
               THEN LT_close_impl(disk, fo).disk ELSE disk
    /\ fret' = Returned("destructor", TRUE, 0, <<>>, 0)
    /\ fo' = NoObject
    /\ UNCHANGED <<appended, tracked, read_back, created, rvars, pvars, gvars, fvars, mvars, cvars, hvars>>

XInit ==
    /\ disk \in {[p \in Paths |-> NoFile],
                 [[p \in Paths |-> NoFile] EXCEPT
                     ![FilePath] = [exists |-> TRUE, bytes |-> <<9>>]]}
    /\ fo = NoObject /\ fret = NoReturn
    /\ appended = <<>> /\ tracked = FALSE /\ read_back = <<>> /\ created = <<>>
    /\ RIdle /\ PIdle /\ GIdle /\ FIdle /\ MIdle /\ CIdle /\ HIdle

XNext ==
    \/ X_New \/ X_Destroy
    \/ SW_open \/ SW_size \/ SW_append \/ SW_close
    \/ SR_open \/ SR_size \/ SR_read
    \/ RA_open \/ RA_read_at
    \/ LT_open \/ TF_open

SpecFile == XInit /\ [][XNext]_vars

(* C18: size() is 0 right after a truncating open; when the file is        *)
(* reopened for reading, size() is the number of bytes appended, the reads *)
(* deliver a prefix of the appended bytes, and a first read of at least    *)
(* that many bytes delivers all of them.                                   *)
C18_AppendedReadBack ==
    /\ (fret.op = "SequentialWriteFile::size" /\ fret.ok /\ fo.truncating
            /\ fo.calls = 0)
        => fret.value = 0
    /\ (fret.op = "SequentialReadFile::size" /\ fret.ok /\ tracked)
        => fret.value = Len(Flat(appended))
    /\ (fo.class = "SequentialReadFile" /\ tracked)
        => IsPrefix(read_back, Flat(appended))
    /\ (fret.op = "read" /\ fret.ok /\ tracked /\ fo.calls = 1
            /\ fret.len >= Len(Flat(appended)))
        => fret.data = Flat(appended)

(* C19: a successful read_at of len bytes at offset returns the number of  *)
(* bytes it read, the minimum of len and the bytes from offset to the end. *)
C19_ReadAtReturnsCount ==
    (fret.ok /\ fret.op = "read_at") =>
        LET size == Len(disk[fo.fd].bytes)
            left == IF fret.offset < size THEN size - fret.offset ELSE 0
        IN  /\ fret.value = Min(fret.len, left)
            /\ fret.value = Len(fret.data)

(* C20: once a temp file object that was opened successfully has been      *)
(* destroyed, the file its open created is gone.                           *)
C20_TempFileRemoved ==
    (fret.op = "destructor" /\ fret.class \in {"lfs::TempFile", "TempFile"}
        /\ created # <<>>)
        => ~disk[created].exists

(***************************************************************************)
(* basic_mmap (sequential_read_file.h). SpecMmap applies map(path),        *)
(* map(handle) and unmap to one object over one file; the caller opens     *)
(* handles of its own. Page size and file size are scaled.                 *)
(***************************************************************************)
ScaledPage == 2
MaxFileSize == 2
MaxHandles == 3
MaxMappings == 2
map_entire_file == 0

MmapPaths == {"", "gone", "f"}
Handles == 1..MaxHandles
Addresses == 1..MaxMappings

(* The offset rounded down to the page allocation granularity. *)
make_offset_page_aligned(offset) == (offset \div ScaledPage) * ScaledPage

LowestFree(used, all) == CHOOSE x \in all \ used : \A y \in all \ used : x <= y

(* basic_mmap::unmap on object o with open handles hs and mappings ms; it  *)
(* leaves is_handle_internal_ as it is.                                    *)
basic_mmap_unmap(o, hs, ms) ==
    IF o.file_handle_ = invalid_handle
    THEN [mm |-> o, handles |-> hs, mappings |-> ms]
    ELSE [mm |-> [o EXCEPT !.data_ = nullptr, !.length_ = 0,
                           !.mapped_length_ = 0,
                           !.file_handle_ = invalid_handle],
          handles |-> IF o.is_handle_internal_ THEN hs \ {o.file_handle_}
                      ELSE hs,
          mappings |-> IF o.data_ # nullptr THEN ms \ {o.data_} ELSE ms]

(* A variant that unmaps the previous mapping before it creates the new    *)
(* one.                                                                    *)
map_handle_unmap_first(o, hs, ms, handle, offset, length, size, mmap_ok) ==
    LET u == basic_mmap_unmap(o, hs, ms)
        len == IF length = map_entire_file THEN size - offset ELSE length
        aligned_offset == make_offset_page_aligned(offset)
        length_to_map == offset - aligned_offset + len
        addr == LowestFree({m.addr : m \in u.mappings}, Addresses)
        ctx == [addr |-> addr, at |-> offset, start |-> aligned_offset]
    IN  IF handle = invalid_handle \/ handle \notin hs
        THEN [mm |-> u.mm, handles |-> u.handles, mappings |-> u.mappings,
              error |-> "bad_file_descriptor"]
        ELSE IF offset + length > size
        THEN [mm |-> u.mm, handles |-> u.handles, mappings |-> u.mappings,
              error |-> "invalid_argument"]
        ELSE IF length_to_map = 0 \/ ~mmap_ok
        THEN [mm |-> u.mm, handles |-> u.handles, mappings |-> u.mappings,
              error |-> "last_error"]
        ELSE [mm |-> [data_ |-> ctx, length_ |-> len,
                      mapped_length_ |-> length_to_map,
                      file_handle_ |-> handle, is_handle_internal_ |-> FALSE],
              handles |-> u.handles \cup {handle},
              mappings |-> u.mappings \cup {ctx},
              error |-> "ok"]

(* basic_mmap::map(handle, offset, length, error): query_file_size fails   *)
(* on a handle that is not open; mmap fails on a length of 0 and whenever  *)
(* the system refuses (mmap_ok).                                           *)
map_handle(o, hs, ms, handle, offset, length, size, mmap_ok) ==
    LET len == IF length = map_entire_file THEN size - offset ELSE length
        aligned_offset == make_offset_page_aligned(offset)
        length_to_map == offset - aligned_offset + len
        addr == LowestFree({m.addr : m \in ms}, Addresses)
        ctx == [addr |-> addr, at |-> offset, start |-> aligned_offset]
        u == basic_mmap_unmap(o, hs, ms \cup {ctx})
    IN  IF handle = invalid_handle
        THEN [mm |-> o, handles |-> hs, mappings |-> ms,
              error |-> "bad_file_descriptor"]
        ELSE IF handle \notin hs
        THEN [mm |-> o, handles |-> hs, mappings |-> ms,
              error |-> "last_error"]
        ELSE IF offset + length > size
        THEN [mm |-> o, handles |-> hs, mappings |-> ms,
              error |-> "invalid_argument"]
        ELSE IF length_to_map = 0 \/ ~mmap_ok
        THEN [mm |-> o, handles |-> hs, mappings |-> ms,
              error |-> "last_error"]
        ELSE [mm |-> [data_ |-> ctx, length_ |-> len,
                      mapped_length_ |-> length_to_map,
                      file_handle_ |-> handle, is_handle_internal_ |-> FALSE],
              handles |-> u.handles,
              mappings |-> u.mappings,
              error |-> "ok"]

(* basic_mmap::map(path, offset, length, error) *)
map_path(o, hs, ms, path, offset, length, size, mmap_ok) ==
    IF path = ""
    THEN [mm |-> o, handles |-> hs, mappings |-> ms,
          error |-> "invalid_argument"]
    ELSE IF path = "gone"
    THEN [mm |-> o, handles |-> hs, mappings |-> ms, error |-> "last_error"]
    ELSE LET handle == LowestFree(hs, Handles)
             r == map_handle(o, hs \cup {handle}, ms, handle, offset, length,
                             size, mmap_ok)
         IN  IF r.error = "ok"
             THEN [r EXCEPT !.mm.is_handle_internal_ = TRUE]
             ELSE r

(* The caller opens the file itself. *)
M_open ==
    /\ Cardinality(mm_handles) < MaxHandles
    /\ mm_handles' = mm_handles \cup {LowestFree(mm_handles, Handles)}
    /\ mm_op' = "open"
    /\ mm_error' = "none"
    /\ mm_before' = mm
    /\ UNCHANGED <<mm, mm_mappings, mm_size, rvars, pvars, gvars, fvars, xvars, cvars, hvars>>

M_map_path ==
    /\ Cardinality(mm_handles) < MaxHandles
    /\ \E path \in MmapPaths, offset \in 0..MaxFileSize,
          length \in 0..MaxFileSize, mmap_ok \in BOOLEAN :
        LET r == map_path(mm, mm_handles, mm_mappings, path, offset, length,
                          mm_size, mmap_ok)
        IN  /\ mm' = r.mm
            /\ mm_handles' = r.handles
            /\ mm_mappings' = r.mappings
            /\ mm_error' = r.error
    /\ mm_op' = "map"
    /\ mm_before' = mm
    /\ UNCHANGED <<mm_size, rvars, pvars, gvars, fvars, xvars, cvars, hvars>>

M_map_handle ==
    /\ \E handle \in Handles \cup {invalid_handle}, offset \in 0..MaxFileSize,
          length \in 0..MaxFileSize, mmap_ok \in BOOLEAN :
        LET r == map_handle(mm, mm_handles, mm_mappings, handle, offset,
                            length, mm_size, mmap_ok)
        IN  /\ mm' = r.mm
            /\ mm_handles' = r.handles
            /\ mm_mappings' = r.mappings
            /\ mm_error' = r.error
    /\ mm_op' = "map"
    /\ mm_before' = mm
    /\ UNCHANGED <<mm_size, rvars, pvars, gvars, fvars, xvars, cvars, hvars>>

M_unmap ==
    /\ LET u == basic_mmap_unmap(mm, mm_handles, mm_mappings)
       IN  /\ mm' = u.mm
           /\ mm_handles' = u.handles
           /\ mm_mappings' = u.mappings
    /\ mm_op' = "unmap"
    /\ mm_error' = "none"
    /\ mm_before' = mm
    /\ UNCHANGED <<mm_size, rvars, pvars, gvars, fvars, xvars, cvars, hvars>>

(* basic_mmap(): is_handle_internal_ has no initialiser. *)
MInit ==
    /\ mm \in {[Unmapped EXCEPT !.is_handle_internal_ = b] : b \in BOOLEAN}
    /\ mm_before = mm /\ mm_error = "none"
    /\ mm_op = "none" /\ mm_handles = {} /\ mm_mappings = {}
    /\ mm_size \in 0..MaxFileSize
    /\ RIdle /\ PIdle /\ GIdle /\ FIdle /\ XIdle /\ CIdle /\ HIdle

MNext == M_open \/ M_map_path \/ M_map_handle \/ M_unmap

SpecMmap == MInit /\ [][MNext]_vars

is_open(o) == o.file_handle_ # invalid_handle

(* C21: a map that reports an error leaves the object as it was, a        *)
(* previous mapping still alive in the address space and an unmapped       *)
(* object unmapped; a map that reports none has established the mapping.   *)
C21_FailedMapChangesNothing ==
    /\ (mm_op = "map" /\ mm_error # "ok") =>
        /\ mm = mm_before
        /\ is_open(mm) => mm.data_ \in mm_mappings
        /\ ~is_open(mm) => (mm.data_ = nullptr /\ mm.length_ = 0)
    /\ (mm_op = "map" /\ mm_error = "ok") =>
        (is_open(mm) /\ mm.data_ \in mm_mappings)

C21_Witness ==
    /\ mm_op = "map" /\ mm_error = "last_error"
    /\ is_open(mm) /\ mm.length_ > 0 /\ mm.is_handle_internal_

(***************************************************************************)
(* skip / advance of the three sequential read files. SpecSkip has one     *)
(* reader of one of the classes over a file of a few bytes.                *)
(***************************************************************************)
MaxSkip == 3
SkipArgs == -1..MaxSkip
MaxPosition == MaxSkip + 2
ReaderClasses ==
    {"SequentialReadFile", "lfs::SequentialReadFile",
     "lfs::SequentialReadMMapFile"}

(* ::lseek(fd, n, SEEK_CUR): a position before the start of the file is    *)
(* refused, one after its end is not.                                      *)
lseek_cur(pos, n) ==
    IF pos + n < 0 THEN [r |-> -1, pos |-> pos] ELSE [r |-> pos + n, pos |-> pos + n]

Skipped(ok, n) ==
    [op |-> "skip", class |-> fo.class, ok |-> ok, n |-> n,
     before |-> IF fo.class = "SequentialReadFile" THEN fo.position_
                ELSE fo.pos]

(* open of the three classes: the descriptor, or the mapping, starts at 0 *)
K_open ==
    /\ fo.fd = INVALID_FILE_HANDLER
    /\ fo' = [fo EXCEPT !.fd = FilePath, !.pos = 0, !.position_ = 0]
    /\ fret' = [op |-> "open", class |-> fo.class, ok |-> TRUE, n |-> 0,
                before |-> 0]
    /\ UNCHANGED <<disk, appended, tracked, read_back, created, rvars, pvars, gvars, fvars, mvars, cvars, hvars>>

(* read(buff, len) of the three classes, for a len within int *)
K_read ==
    /\ fo.fd # INVALID_FILE_HANDLER
    /\ \E len \in 1..2 :
        LET r == sys_read(disk[fo.fd].bytes, fo.pos, len)
        IN  /\ fo.position_ + r.n <= MaxPosition
            /\ fo' = [fo EXCEPT !.pos = @ + r.n, !.position_ = @ + r.n]
            /\ fret' = [op |-> "read", class |-> fo.class, ok |-> TRUE,
                        n |-> r.n, before |-> fo.pos]
    /\ UNCHANGED <<disk, appended, tracked, read_back, created, rvars, pvars, gvars, fvars, mvars, cvars, hvars>>

(* alkaid::SequentialReadFile::skip: the result of lseek is dropped and    *)
(* _position is left alone.                                                *)
K_skip ==
    /\ fo.class = "SequentialReadFile"
    /\ \E n \in SkipArgs :
        /\ fo.pos + n <= MaxPosition
        /\ IF fo.fd = INVALID_FILE_HANDLER
           THEN fret' = Skipped(FALSE, n) /\ UNCHANGED fo
           ELSE /\ fo' = [fo EXCEPT !.pos = lseek_cur(@, n).pos]
                /\ fret' = Skipped(TRUE, n)
    /\ UNCHANGED <<disk, appended, tracked, read_back, created, rvars, pvars, gvars, fvars, mvars, cvars, hvars>>

(* lfs::SequentialReadFile::advance *)
K_advance ==
    /\ fo.class = "lfs::SequentialReadFile"
    /\ \E n \in SkipArgs :
        /\ fo.pos + n <= MaxPosition
        /\ IF fo.fd = INVALID_FILE_HANDLER
           THEN fret' = Skipped(FALSE, n) /\ UNCHANGED fo
           ELSE LET s == lseek_cur(fo.pos, n)
                IN  IF s.r = -1
                    THEN fret' = Skipped(FALSE, n) /\ UNCHANGED fo
                    ELSE /\ fo' = [fo EXCEPT !.pos = s.pos]
                         /\ fret' = Skipped(TRUE, n)
    /\ UNCHANGED <<disk, appended, tracked, read_back, created, rvars, pvars, gvars, fvars, mvars, cvars, hvars>>

(* lfs::SequentialReadMMapFile::advance *)
K_advance_mmap ==
    /\ fo.class = "lfs::SequentialReadMMapFile"
    /\ \E n \in SkipArgs :
        LET size == Len(disk[FilePath].bytes)
            new_pos == fo.pos + n
        IN  IF fo.fd = INVALID_FILE_HANDLER \/ n < 0
            THEN fret' = Skipped(FALSE, n) /\ UNCHANGED fo
            ELSE IF n = 0
            THEN fret' = Skipped(TRUE, n) /\ UNCHANGED fo
            ELSE /\ fo' = [fo EXCEPT !.pos = IF new_pos > size THEN size
                                            ELSE new_pos]
                 /\ fret' = Skipped(TRUE, n)
    /\ UNCHANGED <<disk, appended, tracked, read_back, created, rvars, pvars, gvars, fvars, mvars, cvars, hvars>>

KInit ==
    /\ \E size \in 0..MaxSkip :
        disk = [[p \in Paths |-> NoFile] EXCEPT
                   ![FilePath] = [exists |-> TRUE, bytes |-> Buf(size)]]
    /\ \E c \in ReaderClasses :
        fo = [class |-> c, fd |-> INVALID_FILE_HANDLER, pos |-> 0,
              position_ |-> 0]
    /\ fret = [op |-> "none", class |-> "none", ok |-> TRUE, n |-> 0,
               before |-> 0]
    /\ appended = <<>> /\ tracked = FALSE /\ read_back = <<>> /\ created = <<>>
    /\ RIdle /\ PIdle /\ GIdle /\ FIdle /\ MIdle /\ CIdle /\ HIdle

KNext == K_open \/ K_read \/ K_skip \/ K_advance \/ K_advance_mmap

SpecSkip == KInit /\ [][KNext]_vars

(* What the class reports as its current position: position() of           *)
(* alkaid::SequentialReadFile, tell() of the two lfs classes.              *)
current_position(o) ==
    IF o.class = "SequentialReadFile" THEN o.position_ ELSE o.pos

(* C22: after a successful skip(n) the current position is the previous    *)
(* position plus n, or the end of the file when that sum is beyond it.     *)
C22_SkipClampsAtEnd ==
    (fret.op = "skip" /\ fret.ok) =>
        LET size == Len(disk[FilePath].bytes)
        IN  current_position(fo) =
                IF fret.before + fret.n > size THEN size
                ELSE fret.before + fret.n


(***************************************************************************)
(* BufferedWriter over an lfs::SequentialWriteFile. The file is open and   *)
(* empty at construction, fo.cache_ is the cord as the list of its chunks, *)
(* appended collects what write() was given.                               *)
(***************************************************************************)
MaxWrites == 2
MaxStrLen == 2
MaxFileBytes == 4
CacheSizes == {1, 3}

(* The bytes of the next write: numbered on from the bytes written so far. *)
NextBytes(len) == [i \in 1..len |-> Len(Flat(appended)) + i]

(* lfs::SequentialWriteFile::truncate: ftruncate, then lseek to size,      *)
(* whose result, the new offset, is compared with 0.                       *)
truncate(fd, bytes, size) ==
    IF fd = INVALID_FILE_HANDLER THEN [ok |-> FALSE, bytes |-> bytes]
    ELSE LET cut == [i \in 1..size |-> IF i <= Len(bytes) THEN bytes[i] ELSE 0]
             offset == size
         IN  [ok |-> (offset = 0), bytes |-> cut]

(* SequentialFileWriter::append(const turbo::Cord &, trunc = true): the    *)
(* chunks are written one by one; fail_at is the chunk whose sys_write     *)
(* fails (0: none).                                                        *)
append_cord(fd, bytes, chunks, fail_at) ==
    IF fd = INVALID_FILE_HANDLER THEN [ok |-> FALSE, bytes |-> bytes]
    ELSE LET original_size == Len(bytes)
             done == IF fail_at = 0 THEN Len(chunks) ELSE fail_at - 1
             written == bytes \o Flat(SubSeq(chunks, 1, done))
         IN  IF fail_at # 0
             THEN [ok |-> FALSE,
                   bytes |-> truncate(fd, written, original_size).bytes]
             ELSE LET trs == truncate(fd, written,
                                      original_size + Len(Flat(chunks)))
                  IN  [ok |-> trs.ok, bytes |-> trs.bytes]

(* BufferedWriter::flush_impl *)
flush_impl(o, bytes, fail_at) ==
    LET rs == append_cord(o.fd, bytes, o.cache_, fail_at)
    IN  IF ~rs.ok THEN [ok |-> FALSE, o |-> o, bytes |-> rs.bytes]
        ELSE [ok |-> TRUE, o |-> [o EXCEPT !.cache_ = <<>>], bytes |-> rs.bytes]

(* BufferedWriter::flush *)
flush(o, bytes, fail_at) ==
    IF o.cache_ = <<>> THEN [ok |-> TRUE, o |-> o, bytes |-> bytes]
    ELSE flush_impl(o, bytes, fail_at)

(* SequentialFileWriter::flush *)
writer_flush == TRUE

(* BufferedWriter::finalize without the early return of a finalized      *)
(* writer.                                                                 *)
finalize_again(o, bytes, fail_at) ==
    LET rs == flush(o, bytes, fail_at)
    IN  IF ~rs.ok THEN rs
        ELSE IF ~writer_flush THEN rs
        ELSE [rs EXCEPT !.o.finalized_ = TRUE]

(* BufferedWriter::finalize *)
finalize(o, bytes, fail_at) ==
    IF o.finalized_ THEN [ok |-> TRUE, o |-> o, bytes |-> bytes]
    ELSE finalize_again(o, bytes, fail_at)

Wrote(op, ok) ==
    [op |-> op, class |-> "BufferedWriter", ok |-> ok,
     was_finalized |-> fo.finalized_, before |-> disk[FilePath].bytes]

(* Which chunk's sys_write fails: none, or one of the cord's. *)
FailAt(chunks) == 0..Len(chunks)

(* BufferedWriter::write(const std::string &) *)
B_write ==
    /\ fo.class = "BufferedWriter" /\ ~fo.finalized_
    /\ Len(appended) < MaxWrites
    /\ \E len \in 0..MaxStrLen :
        LET str == NextBytes(len)
            o == [fo EXCEPT !.cache_ = IF len = 0 THEN @ ELSE Append(@, str)]
        IN  /\ appended' = Append(appended, str)
            /\ IF Len(Flat(o.cache_)) >= o.cache_size_
               THEN \E fail_at \in FailAt(o.cache_) :
                      LET rs == flush_impl(o, disk[FilePath].bytes, fail_at)
                      IN  /\ Len(rs.bytes) <= MaxFileBytes
                          /\ fo' = rs.o
                          /\ disk' = [disk EXCEPT ![FilePath].bytes = rs.bytes]
                          /\ fret' = Wrote("write", rs.ok)
               ELSE /\ fo' = o /\ fret' = Wrote("write", TRUE)
                    /\ UNCHANGED disk
    /\ UNCHANGED <<tracked, read_back, created, rvars, pvars, gvars, fvars, mvars, cvars, hvars>>

(* BufferedWriter::flush *)
B_flush ==
    /\ fo.class = "BufferedWriter"
    /\ \E fail_at \in FailAt(fo.cache_) :
        LET rs == flush(fo, disk[FilePath].bytes, fail_at)
        IN  /\ Len(rs.bytes) <= MaxFileBytes
            /\ fo' = rs.o
            /\ disk' = [disk EXCEPT ![FilePath].bytes = rs.bytes]
            /\ fret' = Wrote("flush", rs.ok)
    /\ UNCHANGED <<appended, tracked, read_back, created, rvars, pvars, gvars, fvars, mvars, cvars, hvars>>

(* BufferedWriter::finalize *)
B_finalize ==
    /\ fo.class = "BufferedWriter"
    /\ \E fail_at \in FailAt(fo.cache_) :
        LET rs == finalize(fo, disk[FilePath].bytes, fail_at)
        IN  /\ Len(rs.bytes) <= MaxFileBytes
            /\ fo' = rs.o
            /\ disk' = [disk EXCEPT ![FilePath].bytes = rs.bytes]
            /\ fret' = Wrote("finalize", rs.ok)
    /\ UNCHANGED <<appended, tracked, read_back, created, rvars, pvars, gvars, fvars, mvars, cvars, hvars>>

(* The owner of the shared writer closes it: lfs::SequentialWriteFile::close *)
B_close_writer ==
    /\ fo.class = "BufferedWriter" /\ fo.fd # INVALID_FILE_HANDLER
    /\ fo' = [fo EXCEPT !.fd = INVALID_FILE_HANDLER]
    /\ fret' = Wrote("close", TRUE)
    /\ UNCHANGED <<disk, appended, tracked, read_back, created, rvars, pvars, gvars, fvars, mvars, cvars, hvars>>

BInit ==
    /\ disk = [[p \in Paths |-> NoFile] EXCEPT
                  ![FilePath] = [exists |-> TRUE, bytes |-> <<>>]]
    /\ \E c \in CacheSizes :
        fo = [class |-> "BufferedWriter", cache_size_ |-> c, cache_ |-> <<>>,
              finalized_ |-> FALSE, fd |-> FilePath]
    /\ fret = [op |-> "none", class |-> "none", ok |-> TRUE,
               was_finalized |-> FALSE, before |-> <<>>]
    /\ appended = <<>> /\ tracked = FALSE /\ read_back = <<>> /\ created = <<>>
    /\ RIdle /\ PIdle /\ GIdle /\ FIdle /\ MIdle /\ CIdle /\ HIdle

BNext == B_write \/ B_flush \/ B_finalize \/ B_close_writer

SpecWriter == BInit /\ [][BNext]_vars

(* C23: after finalize() returned Ok, what write() was given is in the     *)
(* file once and in call order, the cache is empty, the writer is closed,  *)
(* and a finalize() of an already finalized writer returned Ok and wrote   *)
(* nothing.                                                                *)
C23_FinalizeWritesOnceAndCloses ==
    (fret.op = "finalize" /\ fret.ok) =>
        /\ disk[FilePath].bytes = Flat(appended)
        /\ fo.cache_ = <<>>
        /\ fo.finalized_
        /\ fo.fd = INVALID_FILE_HANDLER
        /\ fret.was_finalized => disk[FilePath].bytes = fret.before


(***************************************************************************)
(* compression.cc: the static functions of Codec, for every build of the  *)
(* library (which of the ENABLE_* macros are defined).                     *)
(***************************************************************************)
CompressionType ==
    {"UNCOMPRESSED", "SNAPPY", "GZIP", "BROTLI", "ZSTD", "LZ4", "LZ4_FRAME",
     "LZO", "BZ2", "LZ4_HADOOP"}

(* A value that is none of the enumerators, cast to CompressionType. *)
CodecTypeArgs == CompressionType \cup {"static_cast<CompressionType>(99)"}

BuildMacros ==
    {"ENABLE_SNAPPY", "ENABLE_ZLIB", "ENABLE_BROTLI", "ENABLE_LZ4",
     "ENABLE_ZSTD", "ENABLE_BZIP2"}

(* std::numeric_limits<int>::min() *)
kUseDefaultCompressionLevel == -(2 ^ (IntBits - 1))

(* Every int. *)
LevelArgs == kUseDefaultCompressionLevel..(2 ^ (IntBits - 1) - 1)

(* Codec::GetCodecAsString *)
GetCodecAsString(t) ==
    CASE t = "UNCOMPRESSED" -> "uncompressed"
      [] t = "SNAPPY" -> "snappy"
      [] t = "GZIP" -> "gzip"
      [] t = "LZO" -> "lzo"
      [] t = "BROTLI" -> "brotli"
      [] t = "LZ4" -> "lz4_raw"
      [] t = "LZ4_FRAME" -> "lz4"
      [] t = "LZ4_HADOOP" -> "lz4_hadoop"
      [] t = "ZSTD" -> "zstd"
      [] t = "BZ2" -> "bz2"
      [] OTHER -> "unknown"

(* Codec::SupportsCompressionLevel *)
SupportsCompressionLevel(codec) ==
    codec \in {"GZIP", "BROTLI", "ZSTD", "BZ2", "LZ4_FRAME", "LZ4"}

(* Codec::IsAvailable *)
IsAvailable(enabled, codec_type) ==
    CASE codec_type = "UNCOMPRESSED" -> TRUE
      [] codec_type = "SNAPPY" -> "ENABLE_SNAPPY" \in enabled
      [] codec_type = "GZIP" -> "ENABLE_ZLIB" \in enabled
      [] codec_type = "LZO" -> FALSE
      [] codec_type = "BROTLI" -> "ENABLE_BROTLI" \in enabled
      [] codec_type \in {"LZ4", "LZ4_FRAME", "LZ4_HADOOP"} -> "ENABLE_LZ4" \in enabled
      [] codec_type = "ZSTD" -> "ENABLE_ZSTD" \in enabled
      [] codec_type = "BZ2" -> "ENABLE_BZIP2" \in enabled
      [] OTHER -> FALSE

(* CheckSupportsCompressionLevel *)
CheckSupportsCompressionLevel(type) ==
    IF ~SupportsCompressionLevel(type) THEN "InvalidArgument" ELSE "Ok"

Status(code) == [code |-> code, codec |-> "none"]

(* Codec::Create with the test of the compression level left out. *)
Create_any_level(enabled, codec_type, compression_level, init_ok) ==
    IF ~IsAvailable(enabled, codec_type)
    THEN IF codec_type = "LZO" THEN Status("Unimplemented")
         ELSE IF GetCodecAsString(codec_type) = "unknown"
         THEN Status("InvalidArgument")
         ELSE Status("Unimplemented")
    ELSE IF codec_type = "UNCOMPRESSED" THEN [code |-> "Ok", codec |-> "nullptr"]
    ELSE IF ~init_ok THEN Status("InitFailed")
    ELSE [code |-> "Ok", codec |-> GetCodecAsString(codec_type)]

(* Codec::Create(CompressionType, const CodecOptions &); init_ok is the    *)
(* outcome of codec->Init().                                               *)
Create(enabled, codec_type, compression_level, init_ok) ==
    IF ~IsAvailable(enabled, codec_type)
    THEN IF codec_type = "LZO" THEN Status("Unimplemented")
         ELSE IF GetCodecAsString(codec_type) = "unknown"
         THEN Status("InvalidArgument")
         ELSE Status("Unimplemented")
    ELSE IF /\ compression_level # kUseDefaultCompressionLevel
            /\ ~SupportsCompressionLevel(codec_type)
    THEN Status("InvalidArgument")
    ELSE IF codec_type = "UNCOMPRESSED" THEN [code |-> "Ok", codec |-> "nullptr"]
    ELSE IF ~init_ok THEN Status("InitFailed")
    ELSE [code |-> "Ok", codec |-> GetCodecAsString(codec_type)]

(* Codec::MinimumCompressionLevel, MaximumCompressionLevel,                *)
(* DefaultCompressionLevel: the same three steps.                          *)
CompressionLevelOf(enabled, codec_type, init_ok) ==
    IF CheckSupportsCompressionLevel(codec_type) # "Ok"
    THEN Status(CheckSupportsCompressionLevel(codec_type))
    ELSE LET rs == Create(enabled, codec_type, kUseDefaultCompressionLevel, init_ok)
         IN  IF rs.code # "Ok" THEN Status(rs.code) ELSE rs

Called(op, codec_type, compression_level) ==
    [op |-> op, codec_type |-> codec_type, compression_level |-> compression_level]

(* The functions are static and keep nothing between calls: a behaviour   *)
(* is one call.                                                            *)
(* Codec::Create(CompressionType, int compression_level) *)
Q_Create ==
    /\ codec_args = NoCall
    /\ \E t \in CodecTypeArgs, level \in LevelArgs, init_ok \in BOOLEAN :
        /\ codec_args' = Called("Create", t, level)
        /\ codec_ret' = Create(codec_enabled, t, level, init_ok)
    /\ UNCHANGED <<codec_enabled, rvars, pvars, gvars, fvars, xvars, mvars, hvars>>

Q_MinimumCompressionLevel ==
    /\ codec_args = NoCall
    /\ \E t \in CodecTypeArgs, init_ok \in BOOLEAN :
        /\ codec_args' = Called("MinimumCompressionLevel", t, 0)
        /\ codec_ret' = CompressionLevelOf(codec_enabled, t, init_ok)
    /\ UNCHANGED <<codec_enabled, rvars, pvars, gvars, fvars, xvars, mvars, hvars>>

Q_MaximumCompressionLevel ==
    /\ codec_args = NoCall
    /\ \E t \in CodecTypeArgs, init_ok \in BOOLEAN :
        /\ codec_args' = Called("MaximumCompressionLevel", t, 0)
        /\ codec_ret' = CompressionLevelOf(codec_enabled, t, init_ok)
    /\ UNCHANGED <<codec_enabled, rvars, pvars, gvars, fvars, xvars, mvars, hvars>>

Q_DefaultCompressionLevel ==
    /\ codec_args = NoCall
    /\ \E t \in CodecTypeArgs, init_ok \in BOOLEAN :
        /\ codec_args' = Called("DefaultCompressionLevel", t, 0)
        /\ codec_ret' = CompressionLevelOf(codec_enabled, t, init_ok)
    /\ UNCHANGED <<codec_enabled, rvars, pvars, gvars, fvars, xvars, mvars, hvars>>

QInit ==
    /\ codec_enabled \in SUBSET BuildMacros
    /\ codec_args = NoCall /\ codec_ret = NoStatus
    /\ RIdle /\ PIdle /\ GIdle /\ FIdle /\ XIdle /\ MIdle /\ HIdle

QNext ==
    \/ Q_Create \/ Q_MinimumCompressionLevel \/ Q_MaximumCompressionLevel
    \/ Q_DefaultCompressionLevel

SpecCodec == QInit /\ [][QNext]_vars

LevelFunctions ==
    {"MinimumCompressionLevel", "MaximumCompressionLevel",
     "DefaultCompressionLevel"}

(* C24: Create with a compression level other than the default marker      *)
(* returns Ok only for a type that is available in the build and supports  *)
(* compression levels; for a type without level support, SNAPPY and        *)
(* UNCOMPRESSED among them, it returns an error; and the minimum, maximum   *)
(* and default level of a type without level support are InvalidArgument.   *)
C24_LevelOnlyWhereSupported ==
    /\ (/\ codec_args.op = "Create"
        /\ codec_args.compression_level # kUseDefaultCompressionLevel) =>
            /\ codec_ret.code = "Ok" =>
                /\ IsAvailable(codec_enabled, codec_args.codec_type)
                /\ SupportsCompressionLevel(codec_args.codec_type)
            /\ codec_args.codec_type \in
                   {"SNAPPY", "UNCOMPRESSED", "LZO", "LZ4_HADOOP"} =>
                       codec_ret.code # "Ok"
    /\ (/\ codec_args.op \in LevelFunctions
        /\ ~SupportsCompressionLevel(codec_args.codec_type)) =>
            codec_ret.code = "InvalidArgument"

(* Create(SNAPPY, 1) in a build with snappy was refused. *)
C24_Witness ==
    /\ codec_args.op = "Create" /\ codec_args.codec_type = "SNAPPY"
    /\ "ENABLE_SNAPPY" \in codec_enabled
    /\ codec_args.compression_level = 1
    /\ codec_ret.code = "InvalidArgument"


(***************************************************************************)
(* The turns of the loop of parse(), one by one: the parser's working     *)
(* state before the first turn and after each turn.                        *)
(***************************************************************************)
RECURSIVE parse_trace(_, _, _)
parse_trace(f, in, s) ==
    IF s.returned \/ s.data_pos >= Len(in) THEN <<s>>
    ELSE <<s>> \o parse_trace(f, in, parse_step(f, in, s))

(* The turns of the one parse() call of PParse. *)
Turns == parse_trace(p_fmt, p_in, parse_start(UNINITIALIZED_FIELD, 0, FALSE))

(* The byte a turn starts at. *)
ByteAt(s) == p_in[s.data_pos + 1]

LineBreakBytes == {"\r", "\n"}

(* The turn from Turns[i] starts at a delimiter, or at a line break byte,  *)
(* outside quoted mode.                                                    *)
AtDelimiter(i) == ~Turns[i].quote_escape /\ ByteAt(Turns[i]) = p_fmt.delim
AtLineBreak(i) == ~Turns[i].quote_escape /\ ByteAt(Turns[i]) \in LineBreakBytes

(* The bytes parse() takes for the line break starting at offset p: two    *)
(* when a second line break byte follows, whichever the two are.           *)
BreakLengthTaken(p) ==
    IF p + 1 < Len(p_in) /\ p_in[p + 2] \in LineBreakBytes THEN 2 ELSE 1

(* The delimiters outside quoted mode met while the r-th row was built. *)
DelimitersOfRow(r) ==
    Cardinality({i \in 1..(Len(Turns) - 1) :
                    AtDelimiter(i) /\ Len(Turns[i].rows) = r - 1})

(* The rows parse() pushed (end_feed's come after them in p_out). *)
RowsOfParse == Len(Turns[Len(Turns)].rows)

LineBreaksPushRows(break_length(_)) ==
    p_out # <<>> =>
        /\ \A i \in 1..(Len(Turns) - 1) :
            LET s == Turns[i]
                t == Turns[i + 1]
            IN  /\ AtDelimiter(i) =>
                    /\ Len(t.fields) = Len(s.fields) + 1
                    /\ t.rows = s.rows
                    /\ t.data_pos = s.data_pos + 1
                /\ AtLineBreak(i) =>
                    /\ Len(t.fields) = Len(s.fields) + 1
                    /\ Len(t.rows) = Len(s.rows) + 1
                    /\ t.data_pos = s.data_pos + break_length(s.data_pos)
        /\ \A r \in 1..RowsOfParse :
            Len(p_out[1].rows[r].fields) = DelimitersOfRow(r) + 1

(* C25 as stated: outside quoted mode a delimiter closes one field, and a  *)
(* line break, which is one CR, one LF or one CR LF pair, closes the field *)
(* and pushes one row; a row ended by a line break has one field more than *)
(* it has unquoted delimiters.                                             *)
C25_AsStated ==
    LineBreaksPushRows(
        LAMBDA p : IF /\ p + 1 < Len(p_in)
                      /\ p_in[p + 1] = "\r" /\ p_in[p + 2] = "\n"
                   THEN 2 ELSE 1)

(* C25: the same, a line break being one CR or LF byte together with the   *)
(* CR or LF byte that follows it, if one does: LF LF, CR CR and LF CR push *)
(* one row, as CR LF does.                                                 *)
C25_DelimitersAndLineBreaks == LineBreaksPushRows(BreakLengthTaken)

(* A row of two fields ended by CR LF. *)
C25_Witness ==
    /\ p_in = <<"a", ",", "\r", "\n">>
    /\ p_out # <<>>
    /\ Len(p_out[1].rows) = 1 /\ Len(p_out[1].rows[1].fields) = 2


(* C26: a turn of parse() enters quoted mode only at a quote that is the    *)
(* first byte of its field, nothing of the field read yet; a turn that      *)
(* starts in quoted mode pushes no field and no row, and a delimiter or     *)
(* line break byte it starts at becomes content of the field, quoted mode   *)
(* going on; a turn leaves quoted mode only at a quote that a delimiter or  *)
(* a line break byte follows at once.                                       *)
C26_QuotedMode ==
    p_out # <<>> =>
        \A i \in 1..(Len(Turns) - 1) :
            LET s == Turns[i]
                t == Turns[i + 1]
            IN  /\ (~s.quote_escape /\ t.quote_escape) =>
                    /\ ByteAt(s) = p_fmt.quote_char
                    /\ s.field_length = 0
                    /\ \/ s.data_pos = s.row_start
                       \/ p_in[s.data_pos] = p_fmt.delim
                /\ s.quote_escape =>
                    /\ t.fields = s.fields
                    /\ t.rows = s.rows
                /\ (/\ s.quote_escape
                    /\ ByteAt(s) \in {p_fmt.delim} \cup LineBreakBytes) =>
                    /\ t.quote_escape
                    /\ t.data_pos > s.data_pos
                    /\ t.field_start + t.row_start + t.field_length = t.data_pos
                /\ (s.quote_escape /\ ~t.quote_escape) =>
                    /\ ByteAt(s) = p_fmt.quote_char
                    /\ s.data_pos + 1 < Len(p_in)
                    /\ p_in[s.data_pos + 2] \in {p_fmt.delim} \cup LineBreakBytes

(* A quoted field holding a delimiter and a line break, closed by a quote   *)
(* before a delimiter: one row of two fields, the first of two bytes.       *)
C26_Witness ==
    /\ p_in = QuotedDelimiterAndBreak
    /\ p_out # <<>>
    /\ Len(p_out[1].rows) = 1
    /\ Len(p_out[1].rows[1].fields) = 2
    /\ p_out[1].rows[1].fields[1].length = 2


(***************************************************************************)
(* BufferedReader over a SequentialFileReader that is open on a file.      *)
(* fo.cache_ is the cord as its bytes, fo.pos the position of the reader   *)
(* underneath, read_back what the calls put into the caller's buffers.     *)
(***************************************************************************)
MaxBytes == 3
MaxRead == 4
ReadCacheSizes == {1, 3}
Overloads == {"turbo::Cord *", "std::string *", "uint8_t *"}

Larger(a, b) == IF a >= b THEN a ELSE b

(* SequentialFileReader::read(turbo::Cord *, length): what is left of the  *)
(* file, up to length bytes.                                               *)
reader_read(bytes, pos, length) ==
    SubSeq(bytes, pos + 1, pos + Min(length, Len(bytes) - pos))

(* BufferedReader::fill_buffer *)
fill_buffer(o, bytes, size) ==
    IF o.reach_end_ THEN o
    ELSE IF Len(o.cache_) >= size THEN o
    ELSE LET need_size == Larger(size - Len(o.cache_),
                                 o.cache_size_ - Len(o.cache_))
             rs == reader_read(bytes, o.pos, need_size)
         IN  [o EXCEPT !.cache_ = @ \o rs,
                       !.pos = @ + Len(rs),
                       !.reach_end_ = (Len(rs) < need_size)]

(* The three results of a read: the object afterwards, the bytes put into  *)
(* the caller's buffer, the count returned.                                *)
ReadResult(o, out, value) ==
    [o |-> o, delivered |-> out, value |-> value]

(* BufferedReader::read into a turbo::Cord and into a std::string: the     *)
(* cache is handed over and cleared before its size is returned.           *)
read_whole_or_prefix(o, bytes, size) ==
    LET f == IF ~o.reach_end_ THEN fill_buffer(o, bytes, size) ELSE o
    IN  IF f.cache_ = <<>> THEN ReadResult(f, <<>>, 0)
        ELSE IF size >= Len(f.cache_)
        THEN LET cleared == [f EXCEPT !.cache_ = <<>>]
             IN  ReadResult(cleared, f.cache_, Len(cleared.cache_))
        ELSE ReadResult([f EXCEPT !.cache_ = SubSeq(@, size + 1, Len(@))],
                        SubSeq(f.cache_, 1, size), size)

(* BufferedReader::read into a uint8_t buffer: cache_.remove_prefix(size)  *)
(* is called with a size above the cord's when the cache is the shorter;   *)
(* the cord then either trips its check (aborted) or is left empty.        *)
read_uint8(o, bytes, size, aborts) ==
    LET f == IF ~o.reach_end_ THEN fill_buffer(o, bytes, size) ELSE o
        need_copy == Min(size, Len(f.cache_))
    IN  IF f.cache_ = <<>> THEN ReadResult(f, <<>>, 0)
        ELSE IF size <= Len(f.cache_)
        THEN ReadResult([f EXCEPT !.cache_ = SubSeq(@, size + 1, Len(@))],
                        SubSeq(f.cache_, 1, need_copy), size)
        ELSE IF aborts
        THEN ReadResult([f EXCEPT !.class = "aborted"],
                        SubSeq(f.cache_, 1, need_copy), size)
        ELSE ReadResult([f EXCEPT !.cache_ = <<>>],
                        SubSeq(f.cache_, 1, need_copy), size)

(* What a call left: its arguments, the count it returned, the bytes it    *)
(* delivered, and the bytes that were still undelivered before it.         *)
ReadCall(overload, size, rs) ==
    [op |-> "read", class |-> overload, ok |-> rs.o.class # "aborted",
     size |-> size, value |-> rs.value, delivered |-> rs.delivered,
     remaining |-> Len(fo.cache_) + Len(disk[FilePath].bytes) - fo.pos]

BR_read ==
    /\ fo.class = "BufferedReader"
    /\ \E size \in 0..MaxRead, overload \in {"turbo::Cord *", "std::string *"} :
        LET rs == read_whole_or_prefix(fo, disk[FilePath].bytes, size)
        IN  /\ fo' = rs.o
            /\ read_back' = read_back \o rs.delivered
            /\ fret' = ReadCall(overload, size, rs)
    /\ UNCHANGED <<disk, appended, tracked, created, rvars, pvars, gvars, fvars, mvars, cvars, hvars>>

BR_read_uint8 ==
    /\ fo.class = "BufferedReader"
    /\ \E size \in 0..MaxRead, aborts \in BOOLEAN :
        LET rs == read_uint8(fo, disk[FilePath].bytes, size, aborts)
        IN  /\ fo' = rs.o
            /\ read_back' = read_back \o rs.delivered
            /\ fret' = ReadCall("uint8_t *", size, rs)
    /\ UNCHANGED <<disk, appended, tracked, created, rvars, pvars, gvars, fvars, mvars, cvars, hvars>>

BRInit ==
    /\ \E n \in 0..MaxBytes :
        disk = [[p \in Paths |-> NoFile] EXCEPT
                   ![FilePath] = [exists |-> TRUE, bytes |-> Buf(n)]]
    /\ \E c \in ReadCacheSizes :
        fo = [class |-> "BufferedReader", cache_size_ |-> c, cache_ |-> <<>>,
              reach_end_ |-> FALSE, pos |-> 0]
    /\ fret = [op |-> "none", class |-> "none", ok |-> TRUE, size |-> 0,
               value |-> 0, delivered |-> <<>>, remaining |-> 0]
    /\ appended = <<>> /\ tracked = FALSE /\ read_back = <<>> /\ created = <<>>
    /\ RIdle /\ PIdle /\ GIdle /\ FIdle /\ MIdle /\ CIdle /\ HIdle

BRNext == BR_read \/ BR_read_uint8

SpecBufferedReader == BRInit /\ [][BRNext]_vars

(* C27: a read that returned a count delivered that many bytes, the        *)
(* smaller of the size asked for and the bytes not yet delivered; and what *)
(* the reads delivered so far is the beginning of the file, byte by byte.  *)
C27_ReadReturnsDelivered ==
    (fret.op = "read" /\ fret.ok) =>
        /\ fret.value = Len(fret.delivered)
        /\ fret.value = Min(fret.size, fret.remaining)
        /\ read_back = SubSeq(disk[FilePath].bytes, 1, Len(read_back))


(***************************************************************************)
(* The descriptor of a file object of alkaid::lfs through open, close and  *)
(* its destructor. Every open is given a listener with before_close and    *)
(* after_close set; listener_ is the number of the listener held.          *)
(***************************************************************************)
InvalidDescriptor == -1

HandleClasses == {"RandomWriteFile", "SequentialWriteFile", "RandomReadFile"}
Listeners == {1, 2}

Fired(w, ev) ==
    [w EXCEPT !.events = Append(@, [ev |-> ev, fd |-> w.o.fd,
                                    listener |-> w.o.listener_])]

(* ::close(_fd) *)
sys_close(w) == [w EXCEPT !.closes[w.o.fd] = @ + 1]

(* RandomWriteFile::close_impl, SequentialWriteFile::close_impl *)
close_impl_write(w, close_fails) ==
    IF w.o.fd # InvalidDescriptor
    THEN LET c == sys_close(Fired(w, "before_close"))
         IN  IF close_fails THEN [c EXCEPT !.ret = "error"]
             ELSE LET r == [c EXCEPT !.o.fd = InvalidDescriptor]
                  IN  [r EXCEPT !.events = Append(@,
                          [ev |-> "after_close", fd |-> w.o.fd,
                           listener |-> w.o.listener_]),
                                !.ret = "Ok"]
    ELSE [w EXCEPT !.ret = "Ok"]

(* RandomReadFile::close_impl *)
close_impl_read(w) ==
    IF w.o.fd > 0
    THEN LET c == sys_close(Fired(w, "before_close"))
             r == [c EXCEPT !.o.fd = InvalidDescriptor]
         IN  [r EXCEPT !.events = Append(@,
                          [ev |-> "after_close", fd |-> w.o.fd,
                           listener |-> w.o.listener_]),
                       !.ret = "Ok"]
    ELSE [w EXCEPT !.ret = "Ok"]

close_impl(w, close_fails) ==
    IF w.o.class = "RandomReadFile" THEN close_impl_read(w)
    ELSE close_impl_write(w, close_fails)

(* open_file succeeded with descriptor fd, or failed in every try. *)
opened(w, listener, ok, fd) ==
    LET l == [w EXCEPT !.o.listener_ = listener]
    IN  IF ok THEN [l EXCEPT !.o.fd = fd, !.opened = Append(@, fd),
                             !.ret = "Ok"]
        ELSE [l EXCEPT !.ret = "error"]

(* RandomReadFile::open: close_impl() first. *)
open_read(w, listener, ok, fd) ==
    opened(close_impl_read(w), listener, ok, fd)

(* RandomWriteFile::open, SequentialWriteFile::open *)
open_write(w, listener, ok, fd) ==
    opened(w, listener, ok, fd)

World ==
    [o |-> h_obj, opened |-> h_opened, closes |-> h_closes,
     events |-> h_events, ret |-> h_ret]

Becomes(w) ==
    /\ h_obj' = w.o /\ h_opened' = w.opened /\ h_closes' = w.closes
    /\ h_events' = w.events /\ h_ret' = w.ret

CloseAllowed ==
    IF h_obj.fd = InvalidDescriptor THEN TRUE
    ELSE h_closes[h_obj.fd] < MaxCloses

H_open ==
    /\ h_obj.alive /\ Len(h_opened) < MaxOpens /\ CloseAllowed
    /\ \E listener \in Listeners, ok \in BOOLEAN :
        LET fd == h_first + Len(h_opened)
        IN  Becomes(IF h_obj.class = "RandomReadFile"
                    THEN open_read(World, listener, ok, fd)
                    ELSE open_write(World, listener, ok, fd))
    /\ UNCHANGED <<h_first, rvars, pvars, gvars, fvars, xvars, mvars, cvars>>

H_close ==
    /\ h_obj.alive /\ CloseAllowed
    /\ \E close_fails \in BOOLEAN : Becomes(close_impl(World, close_fails))
    /\ UNCHANGED <<h_first, rvars, pvars, gvars, fvars, xvars, mvars, cvars>>

(* ~RandomWriteFile, ~SequentialWriteFile, ~RandomReadFile *)
H_destroy ==
    /\ h_obj.alive /\ CloseAllowed
    /\ \E close_fails \in BOOLEAN :
        LET w == close_impl(World, close_fails)
        IN  Becomes([w EXCEPT !.o.alive = FALSE, !.ret = "destroyed"])
    /\ UNCHANGED <<h_first, rvars, pvars, gvars, fvars, xvars, mvars, cvars>>

HInit ==
    /\ \E c \in HandleClasses :
        h_obj = [class |-> c, fd |-> InvalidDescriptor, listener_ |-> 0,
                 alive |-> TRUE]
    /\ h_first \in FirstDescriptors
    /\ h_opened = <<>> /\ h_closes = [d \in Descriptors |-> 0]
    /\ h_events = <<>> /\ h_ret = "none"
    /\ RIdle /\ PIdle /\ GIdle /\ FIdle /\ XIdle /\ MIdle /\ CIdle

HNext == H_open \/ H_close \/ H_destroy

SpecHandle == HInit /\ [][HNext]_vars

(* The close events fired with the object's _fd being fd, in order. *)
EventsOf(fd) ==
    LET mine == SelectSeq(h_events, LAMBDA e : e.fd = fd)
    IN  [i \in 1..Len(mine) |-> mine[i].ev]

(* C28: a descriptor got from a successful open is never closed twice and  *)
(* its listeners never fire twice or out of order; and once the object has *)
(* let go of it, by close(), by a later open() or by its destructor, it    *)
(* was closed once, with before_close and then after_close fired once.     *)
C28_ClosedExactlyOnce ==
    \A i \in 1..Len(h_opened) :
        LET fd == h_opened[i]
        IN  /\ h_closes[fd] <= 1
            /\ EventsOf(fd) \in {<<>>, <<"before_close", "after_close">>}
            /\ (~h_obj.alive \/ h_obj.fd # fd) =>
                    /\ h_closes[fd] = 1
                    /\ EventsOf(fd) = <<"before_close", "after_close">>

=============================================================================
